---------------------------- MODULE Spec2Model ----------------------------
(***************************************************************************)
(* Model of the contact-record pipeline of WorkingDocumentProcessor        *)
(* (src/chlatochla.py): record assembly (_simple_grouping), the field      *)
(* cleaners, validation and deduplication (_clean_and_validate) and the    *)
(* two batch orchestrators.                                                *)
(*                                                                         *)
(* A Python str is a sequence of one-character strings; a Python dict      *)
(* with optional keys is a function whose DOMAIN is the set of keys        *)
(* present.                                                                *)
(***************************************************************************)
EXTENDS Integers, Sequences, FiniteSets, TLC

VARIABLES
    op,               \* which operation this behaviour exercises
    pc,               \* position of the operation
    entities,         \* input of _simple_grouping: list of {type, value}
    records,          \* input of _clean_and_validate: list of raw records
    clean_records,    \* _clean_and_validate: the accepted records before deduplication
    result,           \* value returned by the pure operation
    raised,           \* TRUE when the operation raised
    file_paths,       \* input of an orchestrator: list of document ids
    fails,            \* documents for which process_document raises
    batch_size,       \* parameter of process_multiple_documents_batched
    max_workers,      \* parameter of process_multiple_documents_batched
    save_per_file,    \* parameter of process_multiple_documents_batched
    batch_idx,        \* index of the batch being processed (0-based)
    pos,              \* sequential mode: number of documents already handled
    fut,              \* batched mode: state of each future of the batch
    collected,        \* batched mode: positions whose future was consumed
    all_raw_records,
    all_filtered_records,
    processed_files,
    completed,        \* history: inside the with block of a batch, the positions
                      \* whose call ended, in the order of ending
    submitted,        \* history: the batches of positions handed to an executor,
                      \* in the order of submission
    processed_pos,    \* history: the positions of file_paths whose result was
                      \* appended, in the order of appending
    saved,            \* per-file output written by save_csv
    ret,              \* the returned BatchResult
    arg,              \* argument of a string cleaner
    parsed,           \* _normalize_date_field: the string handed to the parser
    value,            \* what the string cleaner returned
    again             \* what it returned when called on its own result

vars == <<op, pc, entities, records, clean_records, result, raised, file_paths, fails,
          batch_size, max_workers, save_per_file, batch_idx, pos, fut,
          collected, all_raw_records, all_filtered_records, processed_files,
          processed_pos, submitted,
          completed, saved, ret, arg, parsed, value, again>>

StrVars == <<arg, parsed, value, again>>

NoStr == arg = <<>> /\ parsed = <<>> /\ value = <<>> /\ again = <<>>

-----------------------------------------------------------------------------
(* Characters and strings *)

Digit == {"0", "1", "2", "3", "4", "5", "6", "7", "8", "9"}

UpperSeq == <<"A", "B", "C", "D", "E", "F", "G", "H", "I", "J", "K", "L", "M",
              "N", "O", "P", "Q", "R", "S", "T", "U", "V", "W", "X", "Y", "Z">>

LowerSeq == <<"a", "b", "c", "d", "e", "f", "g", "h", "i", "j", "k", "l", "m",
              "n", "o", "p", "q", "r", "s", "t", "u", "v", "w", "x", "y", "z">>

Upper == {UpperSeq[i] : i \in 1..Len(UpperSeq)}

Lower == {LowerSeq[i] : i \in 1..Len(LowerSeq)}

Alpha == Upper \cup Lower

\* the characters matched by \s
Space == {" ", "\t", "\n", "\r"}

ToUpper(c) ==
    IF c \in Lower THEN UpperSeq[CHOOSE i \in 1..Len(LowerSeq) : LowerSeq[i] = c]
    ELSE c

ToLower(c) ==
    IF c \in Upper THEN LowerSeq[CHOOSE i \in 1..Len(UpperSeq) : UpperSeq[i] = c]
    ELSE c

\* s[a..b] lies in the character class
AllIn(s, a, b, class) == \A k \in a..b : s[k] \in class

Filter(s, class) == SelectSeq(s, LAMBDA c : c \in class)

Remove(s, class) == SelectSeq(s, LAMBDA c : c \notin class)

\* str.upper()
UpperStr(s) == [k \in 1..Len(s) |-> ToUpper(s[k])]

\* str.strip()
Strip(s) ==
    LET ix == {k \in 1..Len(s) : s[k] \notin Space}
    IN  IF ix = {} THEN <<>>
        ELSE SubSeq(s, CHOOSE k \in ix : \A j \in ix : k <= j,
                       CHOOSE k \in ix : \A j \in ix : k >= j)

\* str.rstrip('.')
RStripDots(s) ==
    LET ix == {k \in 1..Len(s) : s[k] # "."}
    IN  IF ix = {} THEN <<>>
        ELSE SubSeq(s, 1, CHOOSE k \in ix : \A j \in ix : k >= j)

\* re.sub(class+, ' ', s): every maximal run of class characters becomes one space
RECURSIVE RunsToSpace(_, _)
RunsToSpace(s, class) ==
    IF s = <<>> THEN <<>>
    ELSE IF s[1] \in class
         THEN IF Len(s) > 1 /\ s[2] \in class
              THEN RunsToSpace(Tail(s), class)
              ELSE <<" ">> \o RunsToSpace(Tail(s), class)
         ELSE <<s[1]>> \o RunsToSpace(Tail(s), class)

\* str.split(): the maximal runs of non-whitespace characters
RECURSIVE Split(_)
Split(s) ==
    LET t == Strip(s)
    IN  IF t = <<>> THEN <<>>
        ELSE LET ws  == {k \in 1..Len(t) : t[k] \in Space}
                 cut == IF ws = {} THEN Len(t) + 1
                        ELSE CHOOSE k \in ws : \A j \in ws : k <= j
             IN  <<SubSeq(t, 1, cut - 1)>> \o Split(SubSeq(t, cut, Len(t)))

\* ' '.join(parts)
RECURSIVE Join(_)
Join(parts) ==
    IF parts = <<>> THEN <<>>
    ELSE IF Len(parts) = 1 THEN parts[1]
    ELSE parts[1] \o <<" ">> \o Join(Tail(parts))


-----------------------------------------------------------------------------
(* Regular-expression pieces.  A match is a tuple of the indices chosen by *)
(* the quantifiers; the regex engine returns the first match in its        *)
(* backtracking order, which is the lexicographically greatest tuple when  *)
(* a greedy choice is written as is and a lazy or leftmost choice negated. *)

\* ends (next index) of \s+ started at index i
WsEnds(s, i) == {j \in (i + 1)..(Len(s) + 1) : AllIn(s, i, j - 1, Space)}

\* ends (next index) of \s* started at index i
WsStarEnds(s, i) == {i} \cup WsEnds(s, i)

\* '.' matches every character but the newline
NoNewline(s, a, b) == \A k \in a..b : s[k] # "\n"

LexGE(t, u) ==
    \/ t = u
    \/ \E k \in 1..Len(t) : (\A j \in 1..(k - 1) : t[j] = u[j]) /\ t[k] > u[k]

FirstMatch(S) == CHOOSE t \in S : \A u \in S : LexGE(t, u)

\* re.sub(r'\s+', ' ', s)
CollapseSpaces(s) == RunsToSpace(s, Space)

-----------------------------------------------------------------------------
(* Address cleaner *)

\* _single_line_address
SingleLineAddress(address) ==
    IF address = <<>> THEN <<>>
    ELSE LET s1 == [k \in 1..Len(address) |->
                      IF address[k] \in {"\r", "\n"} THEN " " ELSE address[k]]
             s2 == RunsToSpace(s1, {",", ";", "|", "/"})
             s3 == Strip(CollapseSpaces(s2))
         IN  RStripDots(s3)

\* ^\s*([A-Za-z]{2,3})\s+(\d{4})\s+(.+)$    <<a, b, c, e>>:
\* state s[a..b-1], postcode s[c..c+3], rest s[e..]
MatchesA(s) ==
    LET n == Len(s)
    IN  UNION { UNION { UNION {
          { <<a, b, c, e>> :
              e \in {x \in WsEnds(s, c + 4) : x <= n /\ NoNewline(s, x, n)} } :
            c \in {x \in WsEnds(s, b) : x + 3 <= n /\ AllIn(s, x, x + 3, Digit)} } :
            b \in {x \in {a + 2, a + 3} : x - 1 <= n /\ AllIn(s, a, x - 1, Alpha)} } :
            a \in WsStarEnds(s, 1) }

\* ^\s*(\d{4})\s+(.+?)\s+([A-Za-z]{2,3})\s*$    <<a, p, -q, l, m>>:
\* postcode s[a..a+3], rest s[p..q-1], state s[l..m-1]
MatchesB(s) ==
    LET n == Len(s)
    IN  UNION { UNION { UNION { UNION {
          { <<a, p, 0 - q, l, m>> :
              m \in {x \in {l + 2, l + 3} : /\ x - 1 <= n
                                            /\ AllIn(s, l, x - 1, Alpha)
                                            /\ AllIn(s, x, n, Space)} } :
            l \in WsEnds(s, q) } :
            q \in {x \in (p + 1)..n : NoNewline(s, p, x - 1)} } :
            p \in WsEnds(s, a + 4) } :
            a \in {x \in WsStarEnds(s, 1) : x + 3 <= n /\ AllIn(s, x, x + 3, Digit)} }

\* ^(.+?)\s+([A-Za-z]{2,3})\s+(\d{4})\s+(.+)$    <<-q, l, m, c, e>>:
\* part1 s[1..q-1], state s[l..m-1], postcode s[c..c+3], part2 s[e..]
MatchesC(s) ==
    LET n == Len(s)
    IN  UNION { UNION { UNION { UNION {
          { <<0 - q, l, m, c, e>> :
              e \in {x \in WsEnds(s, c + 4) : x <= n /\ NoNewline(s, x, n)} } :
            c \in {x \in WsEnds(s, m) : x + 3 <= n /\ AllIn(s, x, x + 3, Digit)} } :
            m \in {x \in {l + 2, l + 3} : x - 1 <= n /\ AllIn(s, l, x - 1, Alpha)} } :
            l \in WsEnds(s, q) } :
            q \in {x \in 2..n : NoNewline(s, 1, x - 1)} }

\* search of ([A-Za-z]{2,3})\s+(\d{4})    <<-i, m, c>>:
\* state s[i..m-1], postcode s[c..c+3]; the match is s[i..c+3]
MatchesD(s) ==
    LET n == Len(s)
    IN  UNION { UNION {
          { <<0 - i, m, c>> :
              c \in {x \in WsEnds(s, m) : x + 3 <= n /\ AllIn(s, x, x + 3, Digit)} } :
            m \in {x \in {i + 2, i + 3} : x - 1 <= n /\ AllIn(s, i, x - 1, Alpha)} } :
            i \in 1..n }

\* f"{rest} {state} {postcode}" with the state upper-cased
StatePostcodeLast(rest, state, postcode) ==
    rest \o <<" ">> \o UpperStr(state) \o <<" ">> \o postcode

FixPatternA(s) ==
    LET t == FirstMatch(MatchesA(s))
        rest == Strip(SubSeq(s, t[4], Len(s)))
    IN  Strip(CollapseSpaces(StatePostcodeLast(
            rest, SubSeq(s, t[1], t[2] - 1), SubSeq(s, t[3], t[3] + 3))))

FixPatternB(s) ==
    LET t == FirstMatch(MatchesB(s))
        rest == Strip(SubSeq(s, t[2], (0 - t[3]) - 1))
    IN  Strip(CollapseSpaces(StatePostcodeLast(
            rest, SubSeq(s, t[4], t[5] - 1), SubSeq(s, t[1], t[1] + 3))))

FixPatternC(s) ==
    LET t == FirstMatch(MatchesC(s))
        part1 == Strip(SubSeq(s, 1, (0 - t[1]) - 1))
        part2 == Strip(SubSeq(s, t[5], Len(s)))
    IN  Strip(CollapseSpaces(StatePostcodeLast(
            part1 \o <<" ">> \o part2,
            SubSeq(s, t[2], t[3] - 1), SubSeq(s, t[4], t[4] + 3))))

FixPatternD(s) ==
    LET t == FirstMatch(MatchesD(s))
        i == 0 - t[1]
        rest == CollapseSpaces(
                    Strip(SubSeq(s, 1, i - 1) \o SubSeq(s, t[3] + 4, Len(s))))
    IN  CollapseSpaces(Strip(StatePostcodeLast(
            rest, SubSeq(s, i, t[2] - 1), SubSeq(s, t[3], t[3] + 3))))

\* mutation of FixAddressOrdering: pattern C is tried first
FixAddressOrderingCFirst(address) ==
    IF address = <<>> THEN address
    ELSE LET s == Strip(SingleLineAddress(address))
         IN  IF MatchesC(s) # {} THEN FixPatternC(s)
             ELSE IF MatchesA(s) # {} THEN FixPatternA(s)
             ELSE IF MatchesB(s) # {} THEN FixPatternB(s)
             ELSE IF MatchesD(s) # {} THEN FixPatternD(s)
             ELSE s

\* _fix_address_ordering
FixAddressOrdering(address) ==
    IF address = <<>> THEN address
    ELSE LET s == Strip(SingleLineAddress(address))
         IN  IF MatchesA(s) # {} THEN FixPatternA(s)
             ELSE IF MatchesB(s) # {} THEN FixPatternB(s)
             ELSE IF MatchesC(s) # {} THEN FixPatternC(s)
             ELSE IF MatchesD(s) # {} THEN FixPatternD(s)
             ELSE s

-----------------------------------------------------------------------------
(* Name cleaner.  A character outside ASCII is written as its code point.  *)

\* letters of the ranges À-Ö, Ø-ö, ø-ÿ that the model's alphabet holds:
\* É, é, ß, ÿ
Accented == {"U+00C9", "U+00E9", "U+00DF", "U+00FF"}

\* [A-Za-zÀ-ÖØ-öø-ÿ'\-\s]
NameChar == Alpha \cup Accented \cup {"'", "-"} \cup Space

\* str.lower() of one character
LowerChar(c) ==
    CASE c = "U+00C9" -> "U+00E9"
      [] c = "U+0178" -> "U+00FF"
      [] OTHER -> ToLower(c)

\* the title-cased form of one character, as str.capitalize() uses it:
\* ß becomes "Ss", ÿ becomes Ÿ (U+0178)
TitleChar(c) ==
    CASE c = "U+00E9" -> <<"U+00C9">>
      [] c = "U+00FF" -> <<"U+0178">>
      [] c = "U+00DF" -> <<"S", "s">>
      [] OTHER -> <<ToUpper(c)>>

\* str.capitalize()
Capitalize(p) ==
    IF p = <<>> THEN <<>>
    ELSE TitleChar(p[1]) \o [k \in 1..(Len(p) - 1) |-> LowerChar(p[k + 1])]

\* str.replace(sub, '')
RECURSIVE RemoveSub(_, _)
RemoveSub(s, sub) ==
    IF Len(s) < Len(sub) THEN s
    ELSE IF SubSeq(s, 1, Len(sub)) = sub
         THEN RemoveSub(SubSeq(s, Len(sub) + 1, Len(s)), sub)
         ELSE <<s[1]>> \o RemoveSub(Tail(s), sub)

\* str.split(' ') of a string that holds single spaces only
RECURSIVE SplitOnSpace(_)
SplitOnSpace(s) ==
    LET sp == {k \in 1..Len(s) : s[k] = " "}
    IN  IF sp = {} THEN <<s>>
        ELSE LET cut == CHOOSE k \in sp : \A j \in sp : k <= j
             IN  <<SubSeq(s, 1, cut - 1)>> \o SplitOnSpace(SubSeq(s, cut + 1, Len(s)))

\* _clean_name
CleanName(name) ==
    IF name = <<>> THEN <<>>
    ELSE LET s0 == Strip(name)
             s1 == RemoveSub(RemoveSub(RemoveSub(s0,
                       <<"U+FF65", "U+FF65", "U+FF65">>), <<"U+2026">>), <<"U+2022">>)
             s2 == Remove(s1, Digit \cup {"?"})
             s3 == Filter(s2, NameChar)
             s4 == Strip(CollapseSpaces(s3))
             sp == SplitOnSpace(s4)
             parts == IF s4 # <<>> THEN [k \in 1..Len(sp) |-> Capitalize(sp[k])] ELSE <<>>
         IN  Strip(Join(parts))

-----------------------------------------------------------------------------
(* Date normalizer *)

\* re.sub(class+, c, s)
RECURSIVE RunsTo(_, _, _)
RunsTo(s, class, c) ==
    IF s = <<>> THEN <<>>
    ELSE IF s[1] \in class
         THEN IF Len(s) > 1 /\ s[2] \in class
              THEN RunsTo(Tail(s), class, c)
              ELSE <<c>> \o RunsTo(Tail(s), class, c)
         ELSE <<s[1]>> \o RunsTo(Tail(s), class, c)

\* re.sub(r'^[\-\s]+|[\-\s]+$', '', s)
StripHyphensAndSpaces(s) ==
    LET ix == {k \in 1..Len(s) : s[k] \notin Space \cup {"-"}}
    IN  IF ix = {} THEN <<>>
        ELSE SubSeq(s, CHOOSE k \in ix : \A j \in ix : k <= j,
                       CHOOSE k \in ix : \A j \in ix : k >= j)

\* [0-9A-Za-z \-/]
DateChar == Digit \cup Alpha \cup {" ", "-", "/"}

\* ^(\d{1,2})([A-Za-z]{3,})(\d{4})$ : <<d, l>> with day s[1..d], month s[d+1..l],
\* year s[l+1..l+4]
GlueMatches(s) ==
    {t \in {1, 2} \X (1..Len(s)) :
        /\ t[2] + 4 = Len(s)
        /\ t[2] - t[1] >= 3
        /\ AllIn(s, 1, t[1], Digit)
        /\ AllIn(s, t[1] + 1, t[2], Alpha)
        /\ AllIn(s, t[2] + 1, t[2] + 4, Digit)}

\* the string handed to the date parser (lines 316-329)
DateCleaned(date_str) ==
    LET s0 == Strip(date_str)
        s1 == RunsTo(s0, {"-", "U+2013", "U+2014"}, "-")
        s2 == RunsTo(s1, {"-"}, "-")
        s3 == StripHyphensAndSpaces(s2)
        s4 == Filter(s3, DateChar)
        s5 == [k \in 1..Len(s4) |-> IF s4[k] = "." THEN "-" ELSE s4[k]]
    IN  IF GlueMatches(s5) # {}
        THEN LET t == CHOOSE t \in GlueMatches(s5) : TRUE
             IN  SubSeq(s5, 1, t[1]) \o <<"-">> \o SubSeq(s5, t[1] + 1, t[2])
                     \o <<"-">> \o SubSeq(s5, t[2] + 1, Len(s5))
        ELSE s5

DigitSeq == <<"0", "1", "2", "3", "4", "5", "6", "7", "8", "9">>

DigitVal(c) == (CHOOSE i \in 1..10 : DigitSeq[i] = c) - 1

RECURSIVE ToInt(_)
ToInt(s) == IF s = <<>> THEN 0 ELSE 10 * ToInt(SubSeq(s, 1, Len(s) - 1)) + DigitVal(s[Len(s)])

\* n written with at least w digits
RECURSIVE Pad(_, _)
Pad(n, w) ==
    IF w <= 1 /\ n < 10 THEN <<DigitSeq[n + 1]>>
    ELSE Pad(n \div 10, w - 1) \o <<DigitSeq[(n % 10) + 1]>>

\* the names of each month: its three-letter form and its full form
MonthNames ==
    <<
       {<<"j", "a", "n">>,
        <<"j", "a", "n", "u", "a", "r", "y">>},
       {<<"f", "e", "b">>,
        <<"f", "e", "b", "r", "u", "a", "r", "y">>},
       {<<"m", "a", "r">>,
        <<"m", "a", "r", "c", "h">>},
       {<<"a", "p", "r">>,
        <<"a", "p", "r", "i", "l">>},
       {<<"m", "a", "y">>},
       {<<"j", "u", "n">>,
        <<"j", "u", "n", "e">>},
       {<<"j", "u", "l">>,
        <<"j", "u", "l", "y">>},
       {<<"a", "u", "g">>,
        <<"a", "u", "g", "u", "s", "t">>},
       {<<"s", "e", "p">>,
        <<"s", "e", "p", "t", "e", "m", "b", "e", "r">>},
       {<<"o", "c", "t">>,
        <<"o", "c", "t", "o", "b", "e", "r">>},
       {<<"n", "o", "v">>,
        <<"n", "o", "v", "e", "m", "b", "e", "r">>},
       {<<"d", "e", "c">>,
        <<"d", "e", "c", "e", "m", "b", "e", "r">>}
    >>

\* the month a word names, 0 when it names none
MonthOf(word) ==
    LET w == [k \in 1..Len(word) |-> ToLower(word[k])]
        ms == {m \in 1..12 : w \in MonthNames[m]}
    IN  IF ms = {} THEN 0 ELSE CHOOSE m \in ms : TRUE

IsLeap(y) == (y % 4 = 0 /\ y % 100 # 0) \/ y % 400 = 0

DaysIn(m, y) ==
    IF m = 2 THEN (IF IsLeap(y) THEN 29 ELSE 28)
    ELSE IF m \in {4, 6, 9, 11} THEN 30 ELSE 31

\* the years a nanosecond Timestamp holds in full
MinYear == 1678
MaxYear == 2261

ValidDate(y, m, d) ==
    /\ y >= MinYear /\ y <= MaxYear
    /\ m >= 1 /\ m <= 12
    /\ d >= 1 /\ d <= DaysIn(m, y)

\* the tokens of the cleaned string: its maximal runs of digits and of letters
RECURSIVE DateFields(_)
DateFields(s) ==
    IF s = <<>> THEN <<>>
    ELSE LET cls == IF s[1] \in Digit THEN Digit
                    ELSE IF s[1] \in Alpha THEN Alpha
                    ELSE {"-", "/", " "}
             stop == {k \in 1..Len(s) : s[k] \notin cls}
             b == IF stop = {} THEN Len(s) + 1
                  ELSE CHOOSE k \in stop : \A j \in stop : k <= j
         IN  (IF s[1] \in Digit \cup Alpha THEN <<SubSeq(s, 1, b - 1)>> ELSE <<>>)
                 \o DateFields(SubSeq(s, b, Len(s)))

IsNumber(f) == f # <<>> /\ AllIn(f, 1, Len(f), Digit)

\* pd.to_datetime(s, dayfirst=True, errors='coerce') on the date shapes of the
\* model: YYYY-MM-DD, D-M-YYYY and D-Mon-YYYY (separated by '-', '/', ' ' or not at all);
\* <<y, m, d>>, or <<>> for NaT
ToDatetimeDayFirst(s) ==
    LET f == DateFields(s)
    IN  IF Len(f) # 3 THEN <<>>
        ELSE IF IsNumber(f[1]) /\ Len(f[1]) = 4 /\ IsNumber(f[2]) /\ Len(f[2]) = 2
                /\ IsNumber(f[3]) /\ Len(f[3]) = 2
             THEN IF ValidDate(ToInt(f[1]), ToInt(f[2]), ToInt(f[3]))
                  THEN <<ToInt(f[1]), ToInt(f[2]), ToInt(f[3])>> ELSE <<>>
        ELSE IF IsNumber(f[1]) /\ Len(f[1]) <= 2 /\ IsNumber(f[3]) /\ Len(f[3]) = 4
             THEN LET d == ToInt(f[1])
                      y == ToInt(f[3])
                  IN  IF IsNumber(f[2]) /\ Len(f[2]) <= 2
                      THEN IF ValidDate(y, ToInt(f[2]), d) THEN <<y, ToInt(f[2]), d>>
                           ELSE IF ValidDate(y, d, ToInt(f[2])) THEN <<y, d, ToInt(f[2])>>
                           ELSE <<>>
                      ELSE IF MonthOf(f[2]) # 0 /\ ValidDate(y, MonthOf(f[2]), d)
                           THEN <<y, MonthOf(f[2]), d>>
                           ELSE <<>>
        ELSE <<>>

\* dt.strftime('%Y-%m-%d')
FormatDate(dt) == Pad(dt[1], 4) \o <<"-">> \o Pad(dt[2], 2) \o <<"-">> \o Pad(dt[3], 2)

\* _normalize_date_field
NormalizeDateField(date_str) ==
    IF date_str = <<>> THEN <<>>
    ELSE LET dt == ToDatetimeDayFirst(DateCleaned(date_str))
         IN  IF dt = <<>> THEN <<>> ELSE FormatDate(dt)

-----------------------------------------------------------------------------
(* Record assembler *)

\* the elements of seq at the indices of S, in increasing order
RECURSIVE Pick(_, _)
Pick(seq, S) ==
    IF S = {} THEN <<>>
    ELSE LET k == CHOOSE x \in S : \A y \in S : x <= y
         IN  <<seq[k]>> \o Pick(seq, S \ {k})

\* dict.get(k, '')
Get(r, k) == IF k \in DOMAIN r THEN r[k] ELSE <<>>

\* [e['value'] for e in entities if e['type'] == type]
ValuesOf(ents, type) ==
    LET sel == SelectSeq(ents, LAMBDA e : e.type = type)
    IN  [k \in 1..Len(sel) |-> sel[k].value]

\* the field types that are copied as they are
PlainTypes == {"mobile", "address", "email", "dateofbirth", "landline", "lastseen"}

MaxOf(S) == CHOOSE x \in S : \A y \in S : x >= y

\* max_count (line 180)
MaxCount(ents) ==
    MaxOf({Len(ValuesOf(ents, ty)) : ty \in PlainTypes \cup {"name"}})

\* what an out-of-range list index evaluates to
IndexError == <<"IndexError">>

\* seq[i] with a 0-based index
Item(seq, i) == IF i >= 0 /\ i < Len(seq) THEN seq[i + 1] ELSE IndexError

\* mutation of InRange: the guard written "i <= len(seq)"
InRangeInclusive(i, seq) == i <= Len(seq)

\* the guard "i < len(seq)" of lines 185-204
InRange(i, seq) == i < Len(seq)

\* record['first_name'] of lines 187-193
FirstNameOf(name) ==
    IF name = IndexError THEN IndexError
    ELSE IF Len(Split(name)) >= 2 THEN Split(name)[1] ELSE name

\* mutation of LastNameOf: only the second token is taken
LastNameSecondToken(name) ==
    IF name = IndexError THEN IndexError
    ELSE IF Len(Split(name)) >= 2 THEN Split(name)[2] ELSE <<>>

\* record['last_name'] of lines 187-193
LastNameOf(name) ==
    IF name = IndexError THEN IndexError
    ELSE IF Len(Split(name)) >= 2 THEN Join(Tail(Split(name))) ELSE <<>>

\* the record built by the loop body for index i (lines 183-205)
RecordAt(ents, i) ==
    LET keys == (IF InRange(i, ValuesOf(ents, "name"))
                 THEN {"first_name", "last_name"} ELSE {})
                \cup {ty \in PlainTypes : InRange(i, ValuesOf(ents, ty))}
    IN  [k \in keys |->
            CASE k = "first_name" -> FirstNameOf(Item(ValuesOf(ents, "name"), i))
              [] k = "last_name" -> LastNameOf(Item(ValuesOf(ents, "name"), i))
              [] OTHER -> Item(ValuesOf(ents, k), i)]

\* mutation of Kept: the test written "if record"
KeptNonEmpty(record) == DOMAIN record # {}

\* if record.get('first_name') (line 207)
Kept(record) == Get(record, "first_name") # <<>>

\* an index of the loop reads a list out of range
GroupingRaises(ents) ==
    \E i \in 0..(MaxCount(ents) - 1) :
        \E k \in DOMAIN RecordAt(ents, i) : RecordAt(ents, i)[k] = IndexError

\* _simple_grouping
SimpleGrouping(ents) ==
    LET built == [i \in 1..MaxCount(ents) |-> RecordAt(ents, i - 1)]
    IN  SelectSeq(built, Kept)

-----------------------------------------------------------------------------
(* Validator and deduplicator *)

CleanFields == {"first_name", "last_name", "mobile", "address", "email",
                "dateofbirth", "landline", "lastseen"}

\* the slice bound of address[:25] (line 385)
AddressWindow == 25

\* re.sub(r'\D', '', mobile)
MobileDigits(record) == Filter(Strip(Get(record, "mobile")), Digit)

\* mutation of MobileOk: the length test written "len(mobile_digits) >= 10"
MobileOkAtLeastTen(digits) == Len(digits) >= 10 /\ digits[1] = "0" /\ digits[2] = "4"

\* len(mobile_digits) == 10 and mobile_digits.startswith('04')
MobileOk(digits) == Len(digits) = 10 /\ digits[1] = "0" /\ digits[2] = "4"

\* the address after lines 358-364
ReorderedAddress(record) ==
    FixAddressOrdering(SingleLineAddress(Strip(Get(record, "address"))))

\* mutation of TestedAddress: the digit is searched in the address as given
RawAddress(record) == Strip(Get(record, "address"))

\* the address whose first characters are searched for a digit (line 385)
TestedAddress(record) == ReorderedAddress(record)

\* address and re.search(r'\d', address[:25])
HasStreetNumber(address) ==
    /\ address # <<>>
    /\ \E k \in 1..Len(address) : k <= AddressWindow /\ address[k] \in Digit

\* first_name and len(first_name) > 1 (lines 370-374)
NameOk(first_name) == first_name # <<>> /\ Len(first_name) > 1

\* mutation of TestedFirstName: the name is tested before it is cleaned
RawFirstName(record) == Strip(Get(record, "first_name"))

\* the first name that lines 370-374 test
TestedFirstName(record) == CleanName(Strip(Get(record, "first_name")))

\* the record passes every test of lines 370-386
Accepts(record) ==
    /\ NameOk(TestedFirstName(record))
    /\ Strip(Get(record, "mobile")) # <<>>
    /\ MobileOk(MobileDigits(record))
    /\ HasStreetNumber(TestedAddress(record))

\* mutation of CleanRecord: an optional field the input lacks is left out
CleanRecordSparse(record) ==
    [k \in {"first_name", "last_name", "mobile", "address"} \cup DOMAIN record |->
        CASE k = "first_name" -> CleanName(Strip(Get(record, "first_name")))
          [] k = "last_name" -> CleanName(Strip(Get(record, "last_name")))
          [] k = "mobile" -> MobileDigits(record)
          [] k = "address" -> SingleLineAddress(ReorderedAddress(record))
          [] k \in {"dateofbirth", "lastseen"} -> NormalizeDateField(Strip(record[k]))
          [] OTHER -> Strip(record[k])]

\* the dict appended at lines 391-400
CleanRecord(record) ==
    [first_name |-> CleanName(Strip(Get(record, "first_name"))),
     last_name |-> CleanName(Strip(Get(record, "last_name"))),
     mobile |-> MobileDigits(record),
     address |-> SingleLineAddress(ReorderedAddress(record)),
     email |-> Strip(Get(record, "email")),
     dateofbirth |-> NormalizeDateField(Strip(Get(record, "dateofbirth"))),
     landline |-> Strip(Get(record, "landline")),
     lastseen |-> NormalizeDateField(Strip(Get(record, "lastseen")))]

\* clean_records after the first loop (lines 345-400)
CleanRecords(recs) ==
    LET acc == SelectSeq(recs, Accepts)
    IN  [k \in 1..Len(acc) |-> CleanRecord(acc[k])]

\* mutation of Unseen: no record is taken for a repeat
NeverSeen(mobile, seen) == TRUE

\* the test of line 408
Unseen(mobile, seen) == mobile \notin seen

\* mutation of DedupLoop: the last record of each mobile is kept
DedupKeepLast(clean, unique, seen) ==
    Pick(clean, {k \in 1..Len(clean) :
                    \A j \in (k + 1)..Len(clean) : clean[j].mobile # clean[k].mobile})

\* the second loop (lines 403-410)
RECURSIVE DedupLoop(_, _, _)
DedupLoop(clean, unique, seen) ==
    IF clean = <<>> THEN unique
    ELSE IF Unseen(Head(clean).mobile, seen)
         THEN DedupLoop(Tail(clean), Append(unique, Head(clean)),
                        seen \cup {Head(clean).mobile})
         ELSE DedupLoop(Tail(clean), unique, seen)

\* a validator without its second loop
CleanAndValidateNoDedup(recs) == CleanRecords(recs)

\* _clean_and_validate
CleanAndValidate(recs) == DedupLoop(CleanRecords(recs), <<>>, {})

-----------------------------------------------------------------------------
(* Duplicate reporter *)

\* record.get('mobile', '') (line 425)
MobileOf(record) == Get(record, "mobile")

\* len(recs) of the group of a mobile (lines 424-426)
GroupSize(recs, mobile) ==
    Cardinality({k \in 1..Len(recs) : MobileOf(recs[k]) = mobile})

\* mutation of Flagged: every group is taken
FlaggedFromOne(size) == size >= 1

\* if len(recs) > 1 (line 428)
Flagged(size) == size > 1

\* the record after lines 430-431
Annotated(record, mobile, size) ==
    [k \in DOMAIN record \cup {"duplicate_mobile", "duplicate_count"} |->
        CASE k = "duplicate_mobile" -> mobile
          [] k = "duplicate_count" -> size
          [] OTHER -> record[k]]

\* the input list after the call: its flagged records were annotated in place
RecordsAfterDetect(recs) ==
    [k \in 1..Len(recs) |->
        IF Flagged(GroupSize(recs, MobileOf(recs[k])))
        THEN Annotated(recs[k], MobileOf(recs[k]), GroupSize(recs, MobileOf(recs[k])))
        ELSE recs[k]]

\* the keys of mobile_counts in the order of their first record
RECURSIVE GroupKeys(_, _)
GroupKeys(recs, seen) ==
    IF recs = <<>> THEN <<>>
    ELSE IF MobileOf(Head(recs)) \in seen THEN GroupKeys(Tail(recs), seen)
    ELSE <<MobileOf(Head(recs))>>
             \o GroupKeys(Tail(recs), seen \cup {MobileOf(Head(recs))})

\* the second loop (lines 427-432): group after group, each in input order
RECURSIVE DuplicatesOf(_, _)
DuplicatesOf(recs, keys) ==
    IF keys = <<>> THEN <<>>
    ELSE (IF Flagged(GroupSize(recs, Head(keys)))
          THEN Pick(RecordsAfterDetect(recs),
                    {k \in 1..Len(recs) : MobileOf(recs[k]) = Head(keys)})
          ELSE <<>>)
         \o DuplicatesOf(recs, Tail(keys))

\* detect_duplicates: the returned list
DetectDuplicates(recs) ==
    IF recs = <<>> THEN <<>> ELSE DuplicatesOf(recs, GroupKeys(recs, {}))

-----------------------------------------------------------------------------
(* Tabular export *)

\* standard_columns (line 442), include_metadata being False
StandardColumns ==
    <<"first_name", "last_name", "mobile", "address", "email", "dateofbirth",
      "landline", "lastseen">>

\* df.columns: the keys of the records
FrameColumns(recs) == UNION {DOMAIN recs[k] : k \in 1..Len(recs)}

\* available_columns (line 445)
AvailableColumns(recs) ==
    SelectSeq(StandardColumns, LAMBDA c : c \in FrameColumns(recs))

\* df[available_columns] as to_csv writes it: the header and one row for each
\* record, a cell without value being empty (lines 446-453)
CsvTable(recs) ==
    [columns |-> AvailableColumns(recs),
     rows |-> [k \in 1..Len(recs) |->
                  [j \in 1..Len(AvailableColumns(recs)) |->
                      Get(recs[k], AvailableColumns(recs)[j])]]]

\* save_csv(records, output_path, append=False): nothing is written for an
\* empty list, an existing file is overwritten (lines 438-454)
SaveCsv(files, fname, recs) ==
    IF recs = <<>> THEN files
    ELSE [n \in DOMAIN files \cup {fname} |->
             IF n = fname THEN CsvTable(recs) ELSE files[n]]

-----------------------------------------------------------------------------
(* Inputs of the model: strings *)

S_Jane == <<"J", "a", "n", "e">>

S_Smith == <<"S", "m", "i", "t", "h">>

S_Bob == <<"B", "o", "b">>

S_J == <<"J">>

S_J7 == <<"J", "7">>

S_jo == <<"j", "o", "?">>

M_A == <<"0", "4", "1", "2", "3", "4", "5", "6", "7", "8">>

M_A_spaced == <<"0", "4", " ", "1", "2", "3", "4", " ", "5", "6", "7", "8">>

M_B == <<"0", "4", "9", "8", "7", "6", "5", "4", "3", "2">>

M_B_punct ==
    <<"(", "0", "4", ")", " ", "9", "8", "7", "6", "-", "5", "4", "3", "2">>

M_landline == <<"0", "2", "1", "2", "3", "4", "5", "6", "7", "8">>

M_short == <<"0", "4", "1", "2", "3", "4", "5", "6", "7">>

M_long == <<"0", "4", "1", "2", "3", "4", "5", "6", "7", "8", "9">>

A_plain == <<"1", "2", " ", "H", "i", "g", "h", " ", "S", "t">>

A_front ==
    <<"N", "S", "W", " ", "2", "2", "8", "9", " ", "1", "2", " ", "H", "i",
      "g", "h", " ", "S", "t">>

A_nodigit == <<"H", "i", "g", "h", " ", "S", "t">>

A_at16 ==
    <<"A", "d", "a", "m", "s", "t", "o", "w", "n", " ", "R", "o", "a", "d",
      " ", "7">>

A_at25 ==
    <<"A", "d", "a", "m", "s", "t", "o", "w", "n", " ", "H", "e", "i", "g",
      "h", "t", "s", " ", "D", "r", "i", "v", "e", " ", "1">>

A_at26 ==
    <<"A", "d", "a", "m", "s", "t", "o", "w", "n", " ", "H", "e", "i", "g",
      "h", "t", "s", " ", "D", "r", "i", "v", "e", "s", " ", "1">>

A_moved ==
    <<"N", "S", "W", " ", "2", "2", "8", "9", " ", "A", "d", "a", "m", "s",
      "t", "o", "w", "n", " ", "H", "e", "i", "g", "h", "t", "s", " ", "N",
      "o", "r", "t", "h", "c", "o", "t", "t">>

E_mail == <<"j", "@", "x", ".", "a", "u">>

D_dob == <<"1", "7", "-", "J", "u", "n", "-", "1", "9", "7", "0">>

D_bad == <<"?", "?", "?", "?">>

L_land == <<"0", "2", "4", "9", "0", "0", "1", "2", "3", "4">>

-----------------------------------------------------------------------------
(* Inputs of _clean_and_validate *)

Raw(fn, ln, mob, addr) ==
    [first_name |-> fn, last_name |-> ln, mobile |-> mob, address |-> addr]

RawPool ==
    { Raw(S_Jane, S_Smith, M_A, A_plain),
      [first_name |-> S_Bob, last_name |-> <<>>, mobile |-> M_A_spaced,
       address |-> A_front, email |-> E_mail, dateofbirth |-> D_dob,
       landline |-> L_land, lastseen |-> D_bad],
      Raw(S_jo, S_Smith, M_B_punct, A_at16),
      Raw(S_Bob, S_Smith, M_B, A_at25),
      Raw(S_J, S_Smith, M_A, A_plain),
      Raw(S_J7, S_Smith, M_A, A_plain),
      [last_name |-> S_Smith, mobile |-> M_A, address |-> A_plain],
      Raw(S_Jane, S_Smith, M_landline, A_plain),
      Raw(S_Jane, S_Smith, M_short, A_plain),
      Raw(S_Jane, S_Smith, M_long, A_plain),
      Raw(S_Jane, S_Smith, <<>>, A_plain),
      [first_name |-> S_Jane, last_name |-> S_Smith, address |-> A_plain],
      Raw(S_Jane, S_Smith, M_B, A_nodigit),
      Raw(S_Jane, S_Smith, M_B, A_moved),
      Raw(S_Jane, S_Smith, M_B, A_at26),
      [first_name |-> S_Jane, last_name |-> S_Smith, mobile |-> M_B] }

\* longest list of raw records handed to _clean_and_validate
MaxRecords == 2

RecordLists == UNION {[1..n -> RawPool] : n \in 0..MaxRecords}

-----------------------------------------------------------------------------
(* Inputs of _simple_grouping: entities as _extract_entities_simple returns *)
(* them, the type lower-cased and trimmed, the value trimmed               *)

Entity(ty, v) == [type |-> ty, value |-> v]

EntityPool ==
    { Entity("name", S_Jane \o <<" ">> \o S_Smith),
      Entity("name", S_Bob),
      Entity("name", S_Jane \o <<" ", "\t">> \o S_Bob \o <<" ", " ">> \o S_Smith),
      Entity("name", <<>>),
      Entity("mobile", M_A),
      Entity("mobile", M_B),
      Entity("address", A_front),
      Entity("phone", L_land) }

\* longest entity list handed to _simple_grouping
MaxEntities == 4

EntityLists == UNION {[1..n -> EntityPool] : n \in 0..MaxEntities}

-----------------------------------------------------------------------------
(* The pure operations as one-step state machines *)

NoBatch ==
    /\ file_paths = <<>> /\ fails = {} /\ batch_size = 1 /\ max_workers = 1
    /\ save_per_file = FALSE /\ batch_idx = 0 /\ pos = 0 /\ fut = <<>>
    /\ collected = {} /\ all_raw_records = <<>> /\ all_filtered_records = <<>>
    /\ processed_files = <<>> /\ processed_pos = <<>> /\ submitted = <<>>
    /\ completed = <<>>
    /\ saved = <<>>
    /\ ret = <<>>

BatchVars == <<file_paths, fails, batch_size, max_workers, save_per_file,
               batch_idx, pos, fut, collected, all_raw_records,
               all_filtered_records, processed_files, processed_pos,
               submitted, completed, saved,
               ret>>

InitGroup ==
    /\ op = "group" /\ pc = "start"
    /\ entities \in EntityLists
    /\ records = <<>> /\ clean_records = <<>> /\ result = <<>> /\ raised = FALSE
    /\ NoBatch
    /\ NoStr

\* a call of _simple_grouping(entities)
CallSimpleGrouping ==
    /\ op = "group" /\ pc = "start"
    /\ raised' = GroupingRaises(entities)
    /\ result' = IF GroupingRaises(entities) THEN <<>> ELSE SimpleGrouping(entities)
    /\ pc' = "done"
    /\ UNCHANGED <<op, entities, records, clean_records>>
    /\ UNCHANGED BatchVars
    /\ UNCHANGED StrVars

SpecGroup == InitGroup /\ [][CallSimpleGrouping]_vars

InitValidate ==
    /\ op = "validate" /\ pc = "start"
    /\ records \in RecordLists
    /\ entities = <<>> /\ clean_records = <<>> /\ result = <<>> /\ raised = FALSE
    /\ NoBatch
    /\ NoStr

\* a validator that writes the cleaned fields into the records it was given
CallCleanAndValidateInPlace ==
    /\ op = "validate" /\ pc = "start"
    /\ clean_records' = CleanRecords(records)
    /\ result' = CleanAndValidate(records)
    /\ records' = [k \in 1..Len(records) |->
                      IF Accepts(records[k]) THEN CleanRecord(records[k])
                      ELSE records[k]]
    /\ pc' = "done"
    /\ UNCHANGED <<op, entities, raised>>
    /\ UNCHANGED BatchVars
    /\ UNCHANGED StrVars

\* a call of _clean_and_validate(records)
CallCleanAndValidate ==
    /\ op = "validate" /\ pc = "start"
    /\ clean_records' = CleanRecords(records)
    /\ result' = CleanAndValidate(records)
    /\ pc' = "done"
    /\ UNCHANGED <<op, entities, records, raised>>
    /\ UNCHANGED BatchVars
    /\ UNCHANGED StrVars

SpecValidate == InitValidate /\ [][CallCleanAndValidate]_vars

-----------------------------------------------------------------------------
(* Documents.  A file path is <<directory, file name>>; what the extraction *)
(* service finds in a document is its entity list.                          *)

P_a == <<"in", "a.pdf">>
P_b == <<"in", "b.pdf">>
P_c == <<"in", "c.pdf">>
P_old == <<"old", "a.pdf">>

DocPool == {P_a, P_b, P_c, P_old}

\* _extract_entities_simple(_call_custom_extractor(path))
DocEntities(path) ==
    CASE path = P_a -> << Entity("name", S_Jane \o <<" ">> \o S_Smith),
                          Entity("mobile", M_A),
                          Entity("address", A_plain),
                          Entity("name", S_Bob),
                          Entity("mobile", M_A_spaced),
                          Entity("address", A_front) >>
      [] path = P_b -> << Entity("name", S_Bob \o <<" ">> \o S_Smith),
                          Entity("mobile", M_A_spaced),
                          Entity("address", A_front),
                          Entity("email", E_mail) >>
      [] path = P_c -> << Entity("name", S_Jane),
                          Entity("mobile", M_B),
                          Entity("address", A_nodigit) >>
      [] OTHER -> <<>>

\* os.path.basename(file_path)
Basename(path) == path[2]

\* process_document, without the two JSON snapshots
ProcessDocument(path) ==
    IF Len(DocEntities(path)) = 0
    THEN [raw_records |-> <<>>, filtered_records |-> <<>>,
          file_name |-> Basename(path)]
    ELSE [raw_records |-> SimpleGrouping(DocEntities(path)),
          filtered_records |-> CleanAndValidate(SimpleGrouping(DocEntities(path))),
          file_name |-> Basename(path)]

\* process_document of every document of the pool: a document's result is
\* the same whenever it is processed
Processed == [path \in DocPool |-> ProcessDocument(path)]

\* longest list of documents handed to an orchestrator
MaxFiles == 3

\* largest batch_size
MaxBatchSize == 2

\* largest max_workers
MaxWorkers == 2

\* lists of distinct paths
PathLists ==
    UNION {{s \in [1..n -> DocPool] : \A i, j \in 1..n : i # j => s[i] # s[j]} :
              n \in 0..MaxFiles}

\* a result whose totals count the files
BatchResultCountingFiles(raw, filtered, files) ==
    [raw_records |-> raw, filtered_records |-> filtered,
     processed_files |-> files, total_raw |-> Len(files),
     total_filtered |-> Len(files)]

\* the dict both orchestrators return
BatchResult(raw, filtered, files) ==
    [raw_records |-> raw, filtered_records |-> filtered,
     processed_files |-> files, total_raw |-> Len(raw),
     total_filtered |-> Len(filtered)]

PureVars == <<entities, records, clean_records, result, raised>>

NoPure ==
    /\ entities = <<>> /\ records = <<>> /\ clean_records = <<>>
    /\ result = <<>> /\ raised = FALSE

Inputs == <<op, file_paths, fails, batch_size, max_workers, save_per_file>>

-----------------------------------------------------------------------------
(* process_multiple_documents: the sequential orchestrator *)

InitSeq ==
    /\ op = "seq" /\ pc = "loop"
    /\ file_paths \in PathLists
    /\ fails \in SUBSET (1..Len(file_paths))
    /\ batch_size = 1 /\ max_workers = 1 /\ save_per_file = FALSE
    /\ batch_idx = 0 /\ pos = 0 /\ fut = <<>> /\ collected = {}
    /\ all_raw_records = <<>> /\ all_filtered_records = <<>>
    /\ processed_files = <<>> /\ processed_pos = <<>> /\ submitted = <<>>
    /\ completed = <<>>
    /\ saved = <<>>
    /\ ret = <<>>
    /\ NoPure
    /\ NoStr

\* mutation of NextAfterFailure: the try statement encloses the loop, so the
\* first failure ends it
AbandonAfterFailure(p, n) == n

\* the loop goes on with the next file after the except clause (lines 494-495)
NextAfterFailure(p, n) == p + 1

\* one iteration whose process_document returns (lines 489-493)
SeqProcess ==
    /\ op = "seq" /\ pc = "loop"
    /\ pos < Len(file_paths)
    /\ (pos + 1) \notin fails
    /\ LET res == Processed[file_paths[pos + 1]]
       IN  /\ all_raw_records' = all_raw_records \o res.raw_records
           /\ all_filtered_records' = all_filtered_records \o res.filtered_records
           /\ processed_files' = Append(processed_files, res.file_name)
    /\ processed_pos' = Append(processed_pos, pos + 1)
    /\ UNCHANGED <<submitted, completed>>
    /\ pos' = pos + 1
    /\ UNCHANGED <<Inputs, pc, batch_idx, fut, collected, saved, ret>>
    /\ UNCHANGED PureVars
    /\ UNCHANGED StrVars

\* one iteration whose process_document raises (lines 494-495)
SeqFail ==
    /\ op = "seq" /\ pc = "loop"
    /\ pos < Len(file_paths)
    /\ (pos + 1) \in fails
    /\ pos' = NextAfterFailure(pos, Len(file_paths))
    /\ UNCHANGED <<Inputs, pc, batch_idx, fut, collected, all_raw_records,
                   all_filtered_records, processed_files, processed_pos,
                   submitted, completed,
                   saved, ret>>
    /\ UNCHANGED PureVars
    /\ UNCHANGED StrVars

\* the return statement (lines 497-503)
SeqReturn ==
    /\ op = "seq" /\ pc = "loop"
    /\ pos >= Len(file_paths)
    /\ ret' = BatchResult(all_raw_records, all_filtered_records, processed_files)
    /\ pc' = "done"
    /\ UNCHANGED <<Inputs, batch_idx, pos, fut, collected, all_raw_records,
                   all_filtered_records, processed_files, processed_pos,
                   submitted, completed, saved>>
    /\ UNCHANGED PureVars
    /\ UNCHANGED StrVars

NextSeq == SeqProcess \/ SeqFail \/ SeqReturn

-----------------------------------------------------------------------------
(* process_multiple_documents_batched: the concurrent orchestrator *)

InitBatched ==
    /\ op = "batched" /\ pc = "start"
    /\ file_paths \in PathLists
    /\ fails \in SUBSET (1..Len(file_paths))
    /\ batch_size \in 1..MaxBatchSize
    /\ max_workers \in 1..MaxWorkers
    /\ save_per_file \in BOOLEAN
    /\ batch_idx = 0 /\ pos = 0 /\ fut = <<>> /\ collected = {}
    /\ all_raw_records = <<>> /\ all_filtered_records = <<>>
    /\ processed_files = <<>> /\ processed_pos = <<>> /\ submitted = <<>>
    /\ completed = <<>>
    /\ saved = <<>>
    /\ ret = <<>>
    /\ NoPure
    /\ NoStr

\* math.ceil(total_files / batch_size)
TotalBatches == (Len(file_paths) + batch_size - 1) \div batch_size

\* a slice that runs one file into the next batch
BatchPositionsOverlapping(b) ==
    {p \in 1..Len(file_paths) :
        p > b * batch_size /\ p <= b * batch_size + batch_size + 1}

\* the positions of file_paths[start:end] for batch b (lines 530-532)
BatchPositions(b) ==
    {p \in 1..Len(file_paths) :
        p > b * batch_size /\ p <= b * batch_size + batch_size}

\* an executor with one thread per submitted file
PoolSizeOfBatch == Cardinality(DOMAIN fut)

\* min(max_workers, len(batch)) (line 535)
PoolSize == IF max_workers < Cardinality(DOMAIN fut) THEN max_workers
            ELSE Cardinality(DOMAIN fut)

Running == {p \in DOMAIN fut : fut[p] = "running"}

Queued == {p \in DOMAIN fut : fut[p] = "queued"}

\* the early return for an empty list (lines 516-517)
BatchedReturnEmpty ==
    /\ op = "batched" /\ pc = "start"
    /\ file_paths = <<>>
    /\ ret' = BatchResult(<<>>, <<>>, <<>>)
    /\ pc' = "done"
    /\ UNCHANGED <<Inputs, batch_idx, pos, fut, collected, all_raw_records,
                   all_filtered_records, processed_files, processed_pos,
                   submitted, completed, saved>>
    /\ UNCHANGED PureVars
    /\ UNCHANGED StrVars

\* the executor is created and every file of the batch submitted (lines 529-536)
SubmitBatch ==
    /\ op = "batched" /\ pc \in {"start", "next"}
    /\ file_paths # <<>>
    /\ batch_idx < TotalBatches
    /\ fut' = [p \in BatchPositions(batch_idx) |-> "queued"]
    /\ collected' = {}
    /\ submitted' = Append(submitted, BatchPositions(batch_idx))
    /\ completed' = <<>>
    /\ pc' = "collect"
    /\ UNCHANGED <<Inputs, batch_idx, pos, all_raw_records, all_filtered_records,
                   processed_files, processed_pos, saved, ret>>
    /\ UNCHANGED PureVars
    /\ UNCHANGED StrVars

\* an executor that drops its queued calls once a call of the batch raised
WorkerStartUnlessFailure(p) ==
    /\ op = "batched" /\ pc = "collect"
    /\ p \in Queued
    /\ \A q \in Queued : p <= q
    /\ Cardinality(Running) < PoolSize
    /\ \A q \in DOMAIN fut : fut[q] # "failed"
    /\ fut' = [fut EXCEPT ![p] = "running"]
    /\ UNCHANGED <<Inputs, pc, batch_idx, pos, collected, all_raw_records,
                   all_filtered_records, processed_files, processed_pos,
                   submitted, completed, saved, ret>>
    /\ UNCHANGED PureVars
    /\ UNCHANGED StrVars

\* a free worker thread takes the oldest queued call
WorkerStart(p) ==
    /\ op = "batched" /\ pc = "collect"
    /\ p \in Queued
    /\ \A q \in Queued : p <= q
    /\ Cardinality(Running) < PoolSize
    /\ fut' = [fut EXCEPT ![p] = "running"]
    /\ UNCHANGED <<Inputs, pc, batch_idx, pos, collected, all_raw_records,
                   all_filtered_records, processed_files, processed_pos,
                   submitted, completed,
                   saved, ret>>
    /\ UNCHANGED PureVars
    /\ UNCHANGED StrVars

\* a worker thread that appends the file name itself when its call returns
WorkerFinishAppending(p) ==
    /\ op = "batched" /\ pc = "collect"
    /\ p \in Running
    /\ fut' = [fut EXCEPT ![p] = IF p \in fails THEN "failed" ELSE "ok"]
    /\ completed' = Append(completed, p)
    /\ processed_files' = Append(processed_files, Basename(file_paths[p]))
    /\ UNCHANGED <<Inputs, pc, batch_idx, pos, collected, all_raw_records,
                   all_filtered_records, processed_pos, submitted, saved, ret>>
    /\ UNCHANGED PureVars
    /\ UNCHANGED StrVars

\* process_document returns or raises in its worker thread
WorkerFinish(p) ==
    /\ op = "batched" /\ pc = "collect"
    /\ p \in Running
    /\ fut' = [fut EXCEPT ![p] = IF p \in fails THEN "failed" ELSE "ok"]
    /\ completed' = Append(completed, p)
    /\ UNCHANGED <<Inputs, pc, batch_idx, pos, collected, all_raw_records,
                   all_filtered_records, processed_files, processed_pos,
                   submitted,
                   saved, ret>>
    /\ UNCHANGED PureVars
    /\ UNCHANGED StrVars

\* a collector that lists the file of a call that raised
CollectFailureListing(p) ==
    /\ op = "batched" /\ pc = "collect"
    /\ p \in DOMAIN fut /\ p \notin collected
    /\ fut[p] = "failed"
    /\ collected' = collected \cup {p}
    /\ processed_files' = Append(processed_files, Basename(file_paths[p]))
    /\ UNCHANGED <<Inputs, pc, batch_idx, pos, fut, all_raw_records,
                   all_filtered_records, processed_pos, submitted, completed,
                   saved, ret>>
    /\ UNCHANGED PureVars
    /\ UNCHANGED StrVars

\* as_completed yields a future whose call raised (lines 540-544)
CollectFailure(p) ==
    /\ op = "batched" /\ pc = "collect"
    /\ p \in DOMAIN fut /\ p \notin collected
    /\ fut[p] = "failed"
    /\ collected' = collected \cup {p}
    /\ UNCHANGED <<Inputs, pc, batch_idx, pos, fut, all_raw_records,
                   all_filtered_records, processed_files, processed_pos,
                   submitted, completed,
                   saved, ret>>
    /\ UNCHANGED PureVars
    /\ UNCHANGED StrVars

\* a collector that puts the records of a result in front of the lists
CollectResultInFront(p) ==
    /\ op = "batched" /\ pc = "collect"
    /\ p \in DOMAIN fut /\ p \notin collected
    /\ fut[p] = "ok"
    /\ collected' = collected \cup {p}
    /\ LET res == Processed[file_paths[p]]
       IN  /\ all_raw_records' = res.raw_records \o all_raw_records
           /\ all_filtered_records' = res.filtered_records \o all_filtered_records
           /\ processed_files' = Append(processed_files, res.file_name)
           /\ saved' = IF save_per_file
                       THEN SaveCsv(saved, res.file_name, res.filtered_records)
                       ELSE saved
    /\ processed_pos' = Append(processed_pos, p)
    /\ UNCHANGED <<submitted, completed>>
    /\ UNCHANGED <<Inputs, pc, batch_idx, pos, fut, ret>>
    /\ UNCHANGED PureVars
    /\ UNCHANGED StrVars

\* as_completed yields a future whose call returned (lines 541-560)
CollectResult(p) ==
    /\ op = "batched" /\ pc = "collect"
    /\ p \in DOMAIN fut /\ p \notin collected
    /\ fut[p] = "ok"
    /\ collected' = collected \cup {p}
    /\ LET res == Processed[file_paths[p]]
       IN  /\ all_raw_records' = all_raw_records \o res.raw_records
           /\ all_filtered_records' = all_filtered_records \o res.filtered_records
           /\ processed_files' = Append(processed_files, res.file_name)
           /\ saved' = IF save_per_file
                       THEN SaveCsv(saved, res.file_name, res.filtered_records)
                       ELSE saved
    /\ processed_pos' = Append(processed_pos, p)
    /\ UNCHANGED <<submitted, completed>>
    /\ UNCHANGED <<Inputs, pc, batch_idx, pos, fut, ret>>
    /\ UNCHANGED PureVars
    /\ UNCHANGED StrVars

\* every future was yielded: the with block ends (lines 538, 562); the
\* futures of the batch stay until the next batch replaces them
EndBatch ==
    /\ op = "batched" /\ pc = "collect"
    /\ collected = DOMAIN fut
    /\ batch_idx' = batch_idx + 1
    /\ completed' = <<>>
    /\ pc' = "next"
    /\ UNCHANGED <<Inputs, pos, fut, collected, all_raw_records,
                   all_filtered_records,
                   processed_files, processed_pos, submitted, saved, ret>>
    /\ UNCHANGED PureVars
    /\ UNCHANGED StrVars

\* the return statement (lines 564-570)
BatchedReturn ==
    /\ op = "batched" /\ pc = "next"
    /\ batch_idx >= TotalBatches
    /\ ret' = BatchResult(all_raw_records, all_filtered_records, processed_files)
    /\ pc' = "done"
    /\ UNCHANGED <<Inputs, batch_idx, pos, fut, collected, all_raw_records,
                   all_filtered_records, processed_files, processed_pos,
                   submitted, completed, saved>>
    /\ UNCHANGED PureVars
    /\ UNCHANGED StrVars

NextBatched ==
    \/ BatchedReturnEmpty
    \/ SubmitBatch
    \/ \E p \in 1..Len(file_paths) :
          WorkerStart(p) \/ WorkerFinish(p) \/ CollectFailure(p) \/ CollectResult(p)
    \/ EndBatch
    \/ BatchedReturn

\* both orchestrators over the same inputs
InitBatch == InitSeq \/ InitBatched

NextBatch == NextSeq \/ NextBatched

SpecBatch == InitBatch /\ [][NextBatch]_vars

\* the orchestrators when every thread keeps running: a worker thread that
\* can take or finish a call does, and the calling thread that can consume a
\* future, leave the with block or return does
\* and over the lists that take the documents in one order: what a run does
\* next depends on which calls raise, not on what the documents hold
DocumentOrder == <<P_a, P_old, P_b, P_c>>

InitBatchFair ==
    /\ InitBatch
    /\ \A i \in DOMAIN file_paths : file_paths[i] = DocumentOrder[i]

SpecBatchFair == InitBatchFair /\ [][NextBatch]_vars /\ WF_vars(NextBatch)

-----------------------------------------------------------------------------
(* The string cleaners, each called on a string and then on its own result *)

\* every string over an alphabet up to a length
Strings(alphabet, n) == UNION {[1..k -> alphabet] : k \in 0..n}

OtherVars == <<BatchVars, PureVars>>

\* characters of the names: letters of both cases, separators, a digit, the
\* accented letters and the ellipsis
NameAlphabet == {"a", "B", " ", "-", "7", "U+00E9", "U+00DF", "U+00FF", "U+2026"}

\* longest name handed to _clean_name
MaxNameLen == 3

InitName ==
    /\ op = "clean_name" /\ pc = "start"
    /\ arg \in Strings(NameAlphabet, MaxNameLen)
    /\ parsed = <<>> /\ value = <<>> /\ again = <<>>
    /\ NoBatch /\ NoPure

\* _clean_name(name)
CallCleanName ==
    /\ op = "clean_name" /\ pc = "start"
    /\ value' = CleanName(arg)
    /\ pc' = "called"
    /\ UNCHANGED <<op, arg, parsed, again>>
    /\ UNCHANGED OtherVars

\* _clean_name of the value the first call returned
CallCleanNameAgain ==
    /\ op = "clean_name" /\ pc = "called"
    /\ again' = CleanName(value)
    /\ pc' = "done"
    /\ UNCHANGED <<op, arg, parsed, value>>
    /\ UNCHANGED OtherVars

NextName == CallCleanName \/ CallCleanNameAgain

SpecName == InitName /\ [][NextName]_vars

\* the words the addresses are made of: a state, two four-digit numbers, a
\* word of three letters and one of four, a street number that ends a line
AddressWords ==
    { <<"N", "S", "W">>, <<"2", "2", "8", "9">>, <<"1", "2", "3", "4">>,
      <<"B", "o", "x">>, <<"F", "l", "a", "t">>, <<"1", "2", ",", "\n">> }

\* most words of an address handed to _fix_address_ordering
MaxAddressWords == 4

\* the addresses: words separated by single spaces
Addresses ==
    {Join(ws) : ws \in UNION {[1..k -> AddressWords] : k \in 0..MaxAddressWords}}

InitAddress ==
    /\ op = "fix_address" /\ pc = "start"
    /\ arg \in Addresses
    /\ parsed = <<>> /\ value = <<>> /\ again = <<>>
    /\ NoBatch /\ NoPure

\* _fix_address_ordering(address)
CallFixAddressOrdering ==
    /\ op = "fix_address" /\ pc = "start"
    /\ value' = FixAddressOrdering(arg)
    /\ pc' = "called"
    /\ UNCHANGED <<op, arg, parsed, again>>
    /\ UNCHANGED OtherVars

\* _fix_address_ordering of the value the first call returned
CallFixAddressOrderingAgain ==
    /\ op = "fix_address" /\ pc = "called"
    /\ again' = FixAddressOrdering(value)
    /\ pc' = "done"
    /\ UNCHANGED <<op, arg, parsed, value>>
    /\ UNCHANGED OtherVars

NextAddress == CallFixAddressOrdering \/ CallFixAddressOrderingAgain

SpecAddress == InitAddress /\ [][NextAddress]_vars

\* the parts the dates are made of
DayParts == {<<"1", "7">>, <<"3", "1">>, <<"0", "5">>}

MonthParts == {<<"0", "6">>, <<"0", "2">>, <<"1", "3">>, <<"J", "u", "n">>,
               <<"j", "u", "l">>}

YearParts == {<<"1", "9", "7", "0">>, <<"1", "6", "0", "0">>, <<"9", "9", "9", "9">>}

\* what stands between the parts: hyphens, an en dash, a slash, a space, a
\* period
Separators == {<<"-">>, <<"-", "-">>, <<"U+2013">>, <<"/">>, <<" ">>, <<".">>}

\* day, month, year
DayFirstDates ==
    {d \o s \o m \o s \o y :
        d \in DayParts, s \in Separators, m \in MonthParts, y \in YearParts}

\* year, month, day with hyphens or dashes
YearFirstDates ==
    {y \o s \o m \o s \o d :
        y \in YearParts, s \in {<<"-">>, <<"-", "-">>, <<"U+2013">>},
        m \in {<<"0", "6">>, <<"0", "2">>}, d \in DayParts}

\* strings that hold no date
NoDates == {<<>>, <<" ", " ">>, <<"?", "?", "?", "?">>, <<"a", "b", "c">>}

\* longest run of spaces and hyphens before and after a date
MaxPadding == 1

DateStrings ==
    NoDates \cup
    {a \o x \o b : a \in Strings({" ", "-"}, MaxPadding),
                   x \in DayFirstDates \cup YearFirstDates,
                   b \in Strings({" ", "-"}, MaxPadding)}

InitDate ==
    /\ op = "normalize_date" /\ pc = "start"
    /\ arg \in DateStrings
    /\ parsed = <<>> /\ value = <<>> /\ again = <<>>
    /\ NoBatch /\ NoPure

\* _normalize_date_field(date_str); no statement outside the try block can
\* raise on a string, and the except clause returns ''
CallNormalizeDateField ==
    /\ op = "normalize_date" /\ pc = "start"
    /\ parsed' = (IF arg = <<>> THEN <<>> ELSE DateCleaned(arg))
    /\ value' = NormalizeDateField(arg)
    /\ pc' = "called"
    /\ UNCHANGED <<op, arg, again>>
    /\ UNCHANGED OtherVars

\* _normalize_date_field of the value the first call returned
CallNormalizeDateFieldAgain ==
    /\ op = "normalize_date" /\ pc = "called"
    /\ again' = NormalizeDateField(value)
    /\ pc' = "done"
    /\ UNCHANGED <<op, arg, parsed, value>>
    /\ UNCHANGED OtherVars

NextDate == CallNormalizeDateField \/ CallNormalizeDateFieldAgain

SpecDate == InitDate /\ [][NextDate]_vars

-----------------------------------------------------------------------------
(* detect_duplicates, and the export of what it returned *)

\* a clean record
Clean(fn, mob) ==
    [first_name |-> fn, last_name |-> S_Smith, mobile |-> mob,
     address |-> A_plain, email |-> <<>>, dateofbirth |-> <<>>,
     landline |-> <<>>, lastseen |-> <<>>]

\* clean records of two mobiles and of the empty mobile, and a record
\* without mobile
DuplicatePool ==
    { Clean(S_Jane, M_A), Clean(S_Bob, M_A), Clean(S_Jane, M_B),
      Clean(S_Bob, <<>>), [first_name |-> S_Jane, last_name |-> S_Smith] }

\* longest list handed to detect_duplicates
MaxDuplicateRecords == 5

\* the file the duplicates are exported to
DuplicatesFile == "duplicates.csv"

\* the lists made of records of the pool
DuplicateLists == UNION {[1..n -> DuplicatePool] : n \in 0..MaxDuplicateRecords}

\* the lists a single call of _clean_and_validate returns
ValidatedLists == {CleanAndValidate(recs) : recs \in RecordLists}

InitDuplicates ==
    /\ op = "duplicates" /\ pc = "start"
    /\ records \in DuplicateLists \cup ValidatedLists
    /\ arg = records
    /\ entities = <<>> /\ clean_records = <<>> /\ result = <<>> /\ raised = FALSE
    /\ parsed = <<>> /\ value = <<>> /\ again = <<>>
    /\ NoBatch

\* detect_duplicates(records): the records of the list are the objects the
\* annotations are written to
CallDetectDuplicates ==
    /\ op = "duplicates" /\ pc = "start"
    /\ result' = DetectDuplicates(records)
    /\ records' = RecordsAfterDetect(records)
    /\ pc' = "detected"
    /\ UNCHANGED <<op, entities, clean_records, raised>>
    /\ UNCHANGED <<BatchVars, StrVars>>

\* save_csv(duplicates, output_path)
CallSaveCsv ==
    /\ op = "duplicates" /\ pc = "detected"
    /\ saved' = SaveCsv(saved, DuplicatesFile, result)
    /\ pc' = "done"
    /\ UNCHANGED <<op, entities, records, clean_records, result, raised>>
    /\ UNCHANGED <<file_paths, fails, batch_size, max_workers, save_per_file,
                   batch_idx, pos, fut, collected, all_raw_records,
                   all_filtered_records, processed_files, processed_pos,
                   submitted, completed, ret>>
    /\ UNCHANGED StrVars

NextDuplicates == CallDetectDuplicates \/ CallSaveCsv

SpecDuplicates == InitDuplicates /\ [][NextDuplicates]_vars

-----------------------------------------------------------------------------
(* The whole model *)

Init == InitGroup \/ InitValidate \/ InitBatch \/ InitName \/ InitAddress \/ InitDate
            \/ InitDuplicates

Next == CallSimpleGrouping \/ CallCleanAndValidate \/ NextBatch \/ NextName \/ NextAddress \/ NextDate
            \/ NextDuplicates

Spec == Init /\ [][Next]_vars

-----------------------------------------------------------------------------
(* Properties of _clean_and_validate (SpecValidate) *)

Validated == op = "validate" /\ pc = "done"

\* the mobile with every non-digit character removed
Canon(record) == Filter(Get(record, "mobile"), Digit)

TenDigits04(d) == Len(d) = 10 /\ SubSeq(d, 1, 2) = <<"0", "4">> /\ AllIn(d, 1, 10, Digit)

\* a digit among the first n characters
DigitWithin(a, n) == \E k \in 1..Len(a) : k <= n /\ a[k] \in Digit

\* x is the clean form of the raw record r
CleanFormOf(x, r) ==
    /\ x.first_name = CleanName(Get(r, "first_name"))
    /\ x.last_name = CleanName(Get(r, "last_name"))
    /\ x.mobile = Canon(r)
    /\ x.address = ReorderedAddress(r)

\* the raw record r was accepted by the first loop
InClean(r) == \E j \in 1..Len(clean_records) : CleanFormOf(clean_records[j], r)

AcceptedIdx == {k \in 1..Len(records) : InClean(records[k])}

\* the accepted records that no earlier accepted record shares its mobile with
FirstIdx ==
    {k \in AcceptedIdx :
        \A j \in AcceptedIdx : j < k => Canon(records[j]) # Canon(records[k])}

\* C1: the output of _clean_and_validate holds no two records with the same
\* mobile; the record kept for a mobile is the first accepted record with
\* that digits-only mobile, and the survivors keep their input order.
C1_FirstWins ==
    Validated =>
        /\ \A i, j \in 1..Len(result) : i # j => result[i].mobile # result[j].mobile
        /\ Len(result) = Cardinality(FirstIdx)
        /\ \A j \in 1..Len(result) :
               CleanFormOf(result[j], Pick(records, FirstIdx)[j])

\* two accepted records share a mobile written in two ways, under two names
C1_Witness ==
    /\ Validated
    /\ Len(result) = 1
    /\ \E j, k \in AcceptedIdx :
          /\ j < k
          /\ Canon(records[j]) = Canon(records[k])
          /\ Get(records[j], "mobile") # Get(records[k], "mobile")
          /\ CleanName(Get(records[j], "first_name")) # CleanName(Get(records[k], "first_name"))

\* C5: a record that passes the name and address rules is accepted iff its
\* mobile without the non-digits is 10 digits starting with "04"; the
\* accepted record's mobile is that digits-only string.
C5_MobileRule ==
    Validated =>
        /\ \A k \in 1..Len(records) :
              (NameOk(TestedFirstName(records[k]))
                  /\ HasStreetNumber(TestedAddress(records[k])))
              => (InClean(records[k]) <=> TenDigits04(Canon(records[k])))
        /\ \A j \in 1..Len(clean_records) : TenDigits04(clean_records[j].mobile)
        /\ \A j \in 1..Len(result) : TenDigits04(result[j].mobile)

\* a mobile written with other characters is accepted in its digits-only
\* form, beside a record rejected for its mobile alone
C5_Witness ==
    /\ Validated
    /\ \E k \in 1..Len(records) :
          /\ Get(records[k], "mobile") # Canon(records[k])
          /\ \E j \in 1..Len(result) : CleanFormOf(result[j], records[k])
    /\ \E k \in 1..Len(records) :
          /\ NameOk(TestedFirstName(records[k]))
          /\ HasStreetNumber(TestedAddress(records[k]))
          /\ Len(Canon(records[k])) \in {9, 11}
          /\ ~InClean(records[k])

\* C6: the first name is tested after cleaning: every record of the output
\* has a cleaned first name of at least 2 characters, and no record whose
\* cleaned first name is shorter is accepted.
C6_NameRule ==
    Validated =>
        /\ \A j \in 1..Len(clean_records) :
              /\ Len(clean_records[j].first_name) >= 2
              /\ \E k \in 1..Len(records) : CleanFormOf(clean_records[j], records[k])
        /\ \A j \in 1..Len(result) :
              /\ Len(result[j].first_name) >= 2
              /\ \E k \in 1..Len(records) : CleanFormOf(result[j], records[k])
        /\ \A k \in 1..Len(records) :
              Len(CleanName(Get(records[k], "first_name"))) <= 1 => ~InClean(records[k])

\* a name of 2 characters that cleans to 1 is rejected, beside a name that
\* the cleaner changed and that is accepted
C6_Witness ==
    /\ Validated
    /\ \E k \in 1..Len(records) :
          /\ Len(Strip(Get(records[k], "first_name"))) >= 2
          /\ Len(CleanName(Get(records[k], "first_name"))) = 1
          /\ ~InClean(records[k])
    /\ \E j \in 1..Len(result) : \E k \in 1..Len(records) :
          /\ CleanFormOf(result[j], records[k])
          /\ result[j].first_name # Strip(Get(records[k], "first_name"))

NameAndMobilePass(r) ==
    /\ NameOk(TestedFirstName(r))
    /\ Strip(Get(r, "mobile")) # <<>>
    /\ MobileOk(MobileDigits(r))

\* C7 as stated: a record that passes the name and mobile rules is accepted
\* iff its flattened and reordered address has a digit within its first 15
\* characters.
C7_Window15 ==
    Validated =>
        \A k \in 1..Len(records) :
            NameAndMobilePass(records[k])
            => (InClean(records[k]) <=> DigitWithin(ReorderedAddress(records[k]), 15))

\* C7, amended: a record that passes the name and mobile rules is accepted
\* iff its flattened and reordered address has a digit within its first 25
\* characters; the test reads the reordered address, not the raw one.
C7_Window25 ==
    Validated =>
        \A k \in 1..Len(records) :
            NameAndMobilePass(records[k])
            => (InClean(records[k]) <=> DigitWithin(ReorderedAddress(records[k]), 25))

\* a record whose first digit is at character 16..25 is accepted, beside a
\* record rejected because reordering moved its only digits past the window
C7_Witness ==
    /\ Validated
    /\ \E k \in 1..Len(records) :
          /\ InClean(records[k])
          /\ ~DigitWithin(ReorderedAddress(records[k]), 15)
    /\ \E k \in 1..Len(records) :
          /\ NameAndMobilePass(records[k])
          /\ DigitWithin(Get(records[k], "address"), 15)
          /\ ~InClean(records[k])

OptionalFields == {"email", "dateofbirth", "landline", "lastseen"}

\* C8: every record of the output has exactly the eight fields, an optional
\* field the input lacks being the empty string; a rejected record adds
\* nothing to the output.
C8_EightFields ==
    Validated =>
        /\ \A j \in 1..Len(result) : DOMAIN result[j] = CleanFields
        /\ \A j \in 1..Len(clean_records) : DOMAIN clean_records[j] = CleanFields
        /\ Len(clean_records) = Cardinality({k \in 1..Len(records) : Accepts(records[k])})
        /\ Len(result) <= Len(clean_records)
        /\ \A j \in 1..Len(clean_records) :
              LET r == Pick(records, {k \in 1..Len(records) : Accepts(records[k])})[j]
              IN  /\ CleanFormOf(clean_records[j], r)
                  /\ \A f \in OptionalFields \ DOMAIN r : clean_records[j][f] = <<>>
                  /\ \A f \in {"email", "landline"} \cap DOMAIN r :
                        clean_records[j][f] = Strip(r[f])

\* an accepted record without optional fields, beside a rejected record
C8_Witness ==
    /\ Validated
    /\ Len(records) = 2 /\ Len(result) = 1
    /\ \E k \in 1..2 :
          /\ CleanFormOf(result[1], records[k])
          /\ DOMAIN records[k] \cap OptionalFields = {}
          /\ result[1].email = <<>>
          /\ result[1].lastseen = <<>>
    /\ \E k \in 1..2 : ~Accepts(records[k])

-----------------------------------------------------------------------------
(* Properties of _simple_grouping (SpecGroup) *)

Grouped == op = "group" /\ pc = "done"

\* C9: an entity list without a "name" entity, whatever else it holds, gives
\* an empty record list and no error.
C9_NoNameNoRecords ==
    Grouped =>
        ((\A k \in 1..Len(entities) : entities[k].type # "name")
            => (result = <<>> /\ ~raised))

\* entities of several other types, in unequal numbers, and no name
C9_Witness ==
    /\ Grouped
    /\ \A k \in 1..Len(entities) : entities[k].type # "name"
    /\ Len(ValuesOf(entities, "mobile")) = 2
    /\ Len(ValuesOf(entities, "address")) = 1
    /\ result = <<>>

\* the 0-based indices at which a record is kept: a non-empty name exists
KeptIdx ==
    {i \in 0..(Len(ValuesOf(entities, "name")) - 1) :
        ValuesOf(entities, "name")[i + 1] # <<>>}

\* the j-th index at which a record is kept
KeptAt(j) == Pick([i \in 1..Len(entities) |-> i - 1], {i + 1 : i \in KeptIdx})[j]

\* C10: no list is read out of range; the record built at index i holds
\* exactly the fields whose list is longer than i, with the i-th value, also
\* when an earlier index gave no record.
C10_NoIndexError ==
    Grouped =>
        /\ ~raised
        /\ Len(result) = Cardinality(KeptIdx)
        /\ \A j \in 1..Len(result) :
              /\ DOMAIN result[j] \subseteq PlainTypes \cup {"first_name", "last_name"}
              /\ \A ty \in PlainTypes :
                    /\ ty \in DOMAIN result[j] <=> Len(ValuesOf(entities, ty)) > KeptAt(j)
                    /\ ty \in DOMAIN result[j]
                           => result[j][ty] = ValuesOf(entities, ty)[KeptAt(j) + 1]

\* index 0 has an empty name and gives no record; index 1 gives a record
\* with the second mobile and no address
C10_Witness ==
    /\ Grouped
    /\ Len(ValuesOf(entities, "name")) = 2
    /\ ValuesOf(entities, "name")[1] = <<>>
    /\ Len(ValuesOf(entities, "mobile")) = 2
    /\ ValuesOf(entities, "mobile")[1] # ValuesOf(entities, "mobile")[2]
    /\ Len(result) = 1
    /\ result[1].mobile = ValuesOf(entities, "mobile")[2]
    /\ "address" \notin DOMAIN result[1]

\* the name entities, in order
Names == ValuesOf(entities, "name")

\* the number of whitespace-separated tokens of s
TokenCount(s) ==
    Cardinality({k \in 1..Len(s) :
                    s[k] \notin Space /\ (k = 1 \/ s[k - 1] \in Space)})

\* f is the first whitespace-separated token of the trimmed name n
IsFirstToken(f, n) ==
    /\ f # <<>>
    /\ \A k \in 1..Len(f) : f[k] \notin Space
    /\ Len(f) <= Len(n) /\ SubSeq(n, 1, Len(f)) = f
    /\ (Len(f) < Len(n) => n[Len(f) + 1] \in Space)

\* l is the tokens of rest, in order, joined by single spaces
IsJoinedTokens(l, rest) ==
    /\ Filter(l, {c \in Alpha \cup Digit \cup {"'", "-", "."} : TRUE})
          = Filter(rest, {c \in Alpha \cup Digit \cup {"'", "-", "."} : TRUE})
    /\ \A k \in 1..Len(l) : l[k] \in Space => l[k] = " "
    /\ \A k \in 1..Len(l) :
          l[k] = " " => (k > 1 /\ k < Len(l) /\ l[k + 1] # " ")
    /\ TokenCount(l) = TokenCount(rest)
    /\ Len(l) = Len(Filter(rest, {c \in Alpha \cup Digit \cup {"'", "-", "."} : TRUE}))
                   + (IF TokenCount(rest) = 0 THEN 0 ELSE TokenCount(rest) - 1)

\* C11: the record of index i is kept exactly when the i-th name entity
\* exists and is not empty, so there are as many records as non-empty names;
\* in a kept record first_name is the first token of the name and last_name
\* the remaining tokens joined by single spaces, empty for a one-token name.
C11_NameSplit ==
    Grouped =>
        /\ ~raised
        /\ Len(result) = Cardinality({k \in 1..Len(Names) : Names[k] # <<>>})
        /\ \A j \in 1..Len(result) :
              LET n == Names[KeptAt(j) + 1]
                  f == result[j].first_name
              IN  /\ IsFirstToken(f, n)
                  /\ IsJoinedTokens(result[j].last_name,
                                    SubSeq(n, Len(f) + 1, Len(n)))
                  /\ TokenCount(n) = 1 => result[j].last_name = <<>>

\* an empty name, a one-token name and a three-token name with runs of
\* whitespace: two records, the second with the last two tokens joined
C11_Witness ==
    /\ Grouped
    /\ Len(Names) = 3
    /\ Names[1] = <<>>
    /\ TokenCount(Names[2]) = 1
    /\ TokenCount(Names[3]) = 3
    /\ Len(result) = 2
    /\ result[1].first_name = Names[2] /\ result[1].last_name = <<>>
    /\ result[2].first_name = S_Jane
    /\ result[2].last_name = S_Bob \o <<" ">> \o S_Smith

-----------------------------------------------------------------------------
(* Properties of the string cleaners *)

\* C12 as stated: the name cleaner is idempotent, cleaning a cleaned name
\* gives the cleaned name again, accented letters included.
C12_CleanNameIdempotent ==
    (op = "clean_name" /\ pc = "done") => again = value

\* the flattened form of the argument
Flat == Strip(SingleLineAddress(arg))

\* s ends with a token of 2 or 3 upper-case letters followed by a token of
\* exactly 4 digits
EndsWithStatePostcode(s) ==
    LET n == Len(s)
    IN  /\ n >= 7
        /\ AllIn(s, n - 3, n, Digit)
        /\ s[n - 4] = " "
        /\ \E k \in {2, 3} :
              /\ n - 4 - k >= 1
              /\ AllIn(s, n - 4 - k, n - 5, Upper)
              /\ (n - 4 - k > 1 => s[n - 5 - k] = " ")

\* C13 as stated: an address whose flattened form ends with STATE POSTCODE
\* is returned unchanged, so reordering it twice gives what reordering it
\* once gives.
C13_CorrectAddressUnchanged ==
    (op = "fix_address" /\ pc = "done" /\ EndsWithStatePostcode(Flat))
        => (value = Flat /\ again = value)

\* the words of the flattened argument
FlatWords == Split(Flat)

IsState(w) == Len(w) \in {2, 3} /\ AllIn(w, 1, Len(w), Alpha)

IsPostcode(w) == Len(w) = 4 /\ AllIn(w, 1, 4, Digit)

\* the words, then the state in upper case, then the postcode
Reordered(words, state, postcode) ==
    Join(words \o <<UpperStr(state), postcode>>)

\* (a) STATE POSTCODE are the first two words and something follows
ShapeA(w) == Len(w) >= 3 /\ IsState(w[1]) /\ IsPostcode(w[2])

ExpectA(w) == Reordered(SubSeq(w, 3, Len(w)), w[1], w[2])

\* (b) POSTCODE is the first word, STATE the last, something lies between
ShapeB(w) == Len(w) >= 3 /\ IsPostcode(w[1]) /\ IsState(w[Len(w)])

ExpectB(w) == Reordered(SubSeq(w, 2, Len(w) - 1), w[Len(w)], w[1])

\* (c) STATE POSTCODE are two words with something before and after them
EmbeddedAt(w) ==
    {k \in 2..(Len(w) - 2) : IsState(w[k]) /\ IsPostcode(w[k + 1])}

ShapeC(w) == EmbeddedAt(w) # {}

ExpectC(w) ==
    LET k == CHOOSE x \in EmbeddedAt(w) : \A y \in EmbeddedAt(w) : x <= y
    IN  Reordered(SubSeq(w, 1, k - 1) \o SubSeq(w, k + 2, Len(w)),
                  w[k], w[k + 1])

\* (d) a word ends with two letters and the next one starts with four digits
SubstringAt(w) ==
    {k \in 1..(Len(w) - 1) :
        /\ Len(w[k]) >= 2 /\ AllIn(w[k], Len(w[k]) - 1, Len(w[k]), Alpha)
        /\ Len(w[k + 1]) >= 4 /\ AllIn(w[k + 1], 1, 4, Digit)}

ShapeD(w) == SubstringAt(w) # {}

ExpectD(w) ==
    LET k == CHOOSE x \in SubstringAt(w) : \A y \in SubstringAt(w) : x <= y
        u == w[k]
        d == w[k + 1]
        m == IF Len(u) >= 3 /\ u[Len(u) - 2] \in Alpha THEN 3 ELSE 2
        glued == SubSeq(u, 1, Len(u) - m) \o SubSeq(d, 5, Len(d))
    IN  Reordered(SubSeq(w, 1, k - 1)
                     \o (IF glued = <<>> THEN <<>> ELSE <<glued>>)
                     \o SubSeq(w, k + 2, Len(w)),
                  SubSeq(u, Len(u) - m + 1, Len(u)), SubSeq(d, 1, 4))

\* C14: the address is rewritten by the first of the patterns (a), (b), (c),
\* (d) that its flattened form matches, and by that one only; the result then
\* ends with STATE POSTCODE; an address that matches none is returned as its
\* flattened form.
C14_PatternPriority ==
    (op = "fix_address" /\ pc = "called") =>
        LET w == FlatWords
        IN  IF ShapeA(w) THEN value = ExpectA(w) /\ EndsWithStatePostcode(value)
            ELSE IF ShapeB(w) THEN value = ExpectB(w) /\ EndsWithStatePostcode(value)
            ELSE IF ShapeC(w) THEN value = ExpectC(w) /\ EndsWithStatePostcode(value)
            ELSE IF ShapeD(w) THEN value = ExpectD(w) /\ EndsWithStatePostcode(value)
            ELSE value = Join(w) /\ value = Flat

\* "2289 Box 1234 NSW" matches (b), (c) and (d): the leading postcode and the
\* trailing state are moved, the embedded pair stays
C14_Witness ==
    /\ op = "fix_address" /\ pc = "called"
    /\ ShapeB(FlatWords) /\ ShapeC(FlatWords) /\ ShapeD(FlatWords)
    /\ Len(FlatWords) = 4
    /\ FlatWords[2] = <<"B", "o", "x">>
    /\ value = Join(<<FlatWords[2], FlatWords[3], FlatWords[4], FlatWords[1]>>)

DateCalled == op = "normalize_date" /\ pc \in {"called", "done"}

\* s has the form YYYY-MM-DD
IsoForm(s) ==
    /\ Len(s) = 10
    /\ AllIn(s, 1, 4, Digit) /\ s[5] = "-" /\ AllIn(s, 6, 7, Digit)
    /\ s[8] = "-" /\ AllIn(s, 9, 10, Digit)

\* s is a canonical date: of the form YYYY-MM-DD and a day of the calendar
CanonicalDate(s) ==
    /\ IsoForm(s)
    /\ ToInt(SubSeq(s, 1, 4)) >= 1
    /\ ToInt(SubSeq(s, 6, 7)) \in 1..12
    /\ ToInt(SubSeq(s, 9, 10)) >= 1
    /\ ToInt(SubSeq(s, 9, 10)) <= DaysIn(ToInt(SubSeq(s, 6, 7)), ToInt(SubSeq(s, 1, 4)))

\* C15 as stated: the date normalizer returns the empty string or a string
\* of the form YYYY-MM-DD for every input, and a canonical YYYY-MM-DD date
\* is returned unchanged.
C15_TotalAndRoundTrip ==
    DateCalled =>
        /\ value = <<>> \/ CanonicalDate(value)
        /\ CanonicalDate(arg) => value = arg

\* C16 as stated: the string handed to the date parser has a hyphen at each
\* position where the input had a period (inputs of digits, letters and
\* periods, which the cleaning leaves in place).
C16_PeriodsBecomeHyphens ==
    (DateCalled /\ \A k \in 1..Len(arg) : arg[k] \in Digit \cup Alpha \cup {"."}) =>
        /\ Len(parsed) = Len(arg)
        /\ \A k \in 1..Len(arg) : arg[k] = "." => parsed[k] = "-"

-----------------------------------------------------------------------------
(* Properties of detect_duplicates and of the export (SpecDuplicates) *)

Detected == op = "duplicates" /\ pc \in {"detected", "done"}

\* how many records of the argument have the mobile of its k-th record, an
\* absent mobile counting as the empty one
SharedBy(k) ==
    Cardinality({j \in 1..Len(arg) : Get(arg[j], "mobile") = Get(arg[k], "mobile")})

\* x is the record r with its annotation
AnnotationOf(x, r, mobile, size) ==
    /\ DOMAIN x = DOMAIN r \cup {"duplicate_mobile", "duplicate_count"}
    /\ \A f \in DOMAIN r : x[f] = r[f]
    /\ x.duplicate_mobile = mobile
    /\ x.duplicate_count = size

\* C17: detect_duplicates returns exactly the records whose mobile occurs
\* more than once in the list, each once and annotated with the shared mobile
\* and the size of its group; a record with a unique mobile is not returned;
\* records with an empty or absent mobile form one group under the empty key.
C17_ExactlyTheDuplicates ==
    Detected =>
        /\ Len(result) = Cardinality({k \in 1..Len(arg) : SharedBy(k) > 1})
        /\ \A k \in 1..Len(arg) :
              Cardinality({j \in 1..Len(result) :
                              AnnotationOf(result[j], arg[k],
                                           Get(arg[k], "mobile"), SharedBy(k))})
                  = (IF SharedBy(k) > 1
                     THEN Cardinality({i \in 1..Len(arg) : arg[i] = arg[k]})
                     ELSE 0)

\* two records of one mobile, a record with the empty mobile and one without
\* mobile, and a record with a unique mobile: four are returned
C17_Witness ==
    /\ Detected
    /\ Len(arg) = 5
    /\ \E a, b, e, m, u \in 1..5 :
          /\ a # b /\ Get(arg[a], "mobile") = M_A /\ Get(arg[b], "mobile") = M_A
          /\ arg[e] = Clean(S_Bob, <<>>)
          /\ "mobile" \notin DOMAIN arg[m]
          /\ Get(arg[u], "mobile") = M_B
    /\ Len(result) = 4
    /\ \E j \in 1..4 : "mobile" \notin DOMAIN result[j]
                          /\ result[j].duplicate_mobile = <<>>
                          /\ result[j].duplicate_count = 2

\* C18 as stated: after the call every record of the input list has the
\* fields and values it had before.
C18_InputUnchanged == Detected => records = arg

\* the columns of the exported file
ExportedColumns == saved[DuplicatesFile].columns

\* C19 as stated: a duplicate record carries duplicate_key and
\* duplicate_count, and the export of the duplicates holds the base columns
\* followed by the columns duplicate_key and duplicate_count.
C19_AnnotationColumnsExported ==
    (op = "duplicates" /\ pc = "done" /\ result # <<>>) =>
        /\ \A j \in 1..Len(result) :
              {"duplicate_key", "duplicate_count"} \subseteq DOMAIN result[j]
        /\ ExportedColumns = StandardColumns \o <<"duplicate_key", "duplicate_count">>

-----------------------------------------------------------------------------
(* Properties of the orchestrators (SpecBatch) *)

Returned == op \in {"seq", "batched"} /\ pc = "done"

\* the positions whose process_document does not raise
Succeeded == {p \in 1..Len(file_paths) : p \notin fails}

\* the concatenation of one field of the documents' results, in the given
\* order of positions
RECURSIVE ResultsOf(_, _)
ResultsOf(order, field) ==
    IF order = <<>> THEN <<>>
    ELSE Processed[file_paths[Head(order)]][field] \o ResultsOf(Tail(order), field)

\* the number of filtered records of the first k appended documents
FilteredUpTo(k) == Len(ResultsOf(SubSeq(processed_pos, 1, k), "filtered_records"))

\* the appended document that the i-th filtered record comes from
DocAt(i) ==
    CHOOSE k \in 1..Len(processed_pos) : FilteredUpTo(k - 1) < i /\ i <= FilteredUpTo(k)

SameMobile(i, j) ==
    ret.filtered_records[i].mobile = ret.filtered_records[j].mobile

\* C2 as stated: in the result of a batch run no two records of
\* filtered_records share a mobile, also when the mobile occurs in two
\* documents of the batch.
C2_NoSharedMobileInBatch ==
    Returned =>
        \A i, j \in 1..Len(ret.filtered_records) : i # j => ~SameMobile(i, j)

\* C2 amended: filtered_records is the concatenation of the documents'
\* deduplicated outputs, and two of its records share a mobile only when they
\* come from different documents.
C2_UniquePerDocument ==
    Returned =>
        /\ ret.filtered_records = ResultsOf(processed_pos, "filtered_records")
        /\ \A i, j \in 1..Len(ret.filtered_records) :
              (i # j /\ SameMobile(i, j)) => DocAt(i) # DocAt(j)

\* a.pdf, whose two raw records share a mobile, and b.pdf, which holds the
\* same mobile, were both processed: one record of each is in the result
C2_Witness ==
    /\ Returned
    /\ \E k, l \in 1..Len(processed_pos) :
          /\ file_paths[processed_pos[k]] = P_a
          /\ file_paths[processed_pos[l]] = P_b
    /\ Len(Processed[P_a].raw_records) = 2
    /\ Len(Processed[P_a].filtered_records) = 1
    /\ \E i, j \in 1..Len(ret.filtered_records) :
          i # j /\ SameMobile(i, j) /\ DocAt(i) # DocAt(j)

\* C3: in both modes a run in which process_document raises for some
\* documents is never stuck before its return, and the returned raw_records,
\* filtered_records and processed_files hold the results of exactly the
\* documents that did not raise, each once, those after a failing document
\* and those of later batches included; the sequential mode keeps the input
\* order.
C3_FailuresDoNotAbort ==
    /\ (op \in {"seq", "batched"} /\ pc # "done") => ENABLED NextBatch
    /\ Returned =>
          /\ {processed_pos[k] : k \in 1..Len(processed_pos)} = Succeeded
          /\ Len(processed_pos) = Cardinality(Succeeded)
          /\ ret.raw_records = ResultsOf(processed_pos, "raw_records")
          /\ ret.filtered_records = ResultsOf(processed_pos, "filtered_records")
          /\ ret.processed_files =
                 [k \in 1..Len(processed_pos) |-> Basename(file_paths[processed_pos[k]])]
          /\ ret.total_raw = Len(ret.raw_records)
          /\ ret.total_filtered = Len(ret.filtered_records)
          /\ op = "seq" =>
                 \A k, l \in 1..Len(processed_pos) :
                     k < l => processed_pos[k] < processed_pos[l]

\* the first document raises, the second one (the next batch in the batched
\* mode with batch_size 1) is a.pdf and its records are returned
C3_Witness ==
    /\ Returned
    /\ Len(file_paths) >= 2
    /\ batch_size = 1
    /\ 1 \in fails /\ 2 \notin fails
    /\ file_paths[2] = P_a
    /\ "a.pdf" \in {ret.processed_files[k] : k \in 1..Len(ret.processed_files)}
    /\ Len(ret.raw_records) >= 2
    /\ Len(ret.filtered_records) >= 1

\* the entries of the returned dict that hold the results of the documents
\* that succeeded
SuccessKeys ==
    {"raw_records", "filtered_records", "processed_files", "total_raw",
     "total_filtered"}

HoldsItem(v, path) == \E k \in DOMAIN v : v[k] = path \/ v[k] = Basename(path)

\* C4 as stated: after any run every document whose processing raised is
\* recorded as a failed item in the returned result, in an entry apart from
\* those of the documents that succeeded.
C4_FailedItemsRecorded ==
    Returned =>
        \A p \in fails :
            \E key \in DOMAIN ret \ SuccessKeys : HoldsItem(ret[key], file_paths[p])

\* the k-th block of batch_size consecutive positions of the input list
Block(k) == {p \in 1..Len(file_paths) : (p - 1) \div batch_size = k - 1}

\* the prefix of the partition of the input list into consecutive blocks
SubmittedInBlocks ==
    /\ Len(submitted) <= TotalBatches
    /\ \A k \in DOMAIN submitted :
          /\ submitted[k] = Block(k)
          /\ submitted[k] # {}
          /\ \A p \in submitted[k], q \in 1..Len(file_paths) :
                (p <= q /\ q <= (k - 1) * batch_size + batch_size) =>
                    q \in submitted[k]
          /\ Cardinality(submitted[k]) <= batch_size
          /\ k < TotalBatches => Cardinality(submitted[k]) = batch_size

\* every position of the input list is in exactly one submitted batch
EachSubmittedOnce ==
    \A p \in 1..Len(file_paths) :
        Cardinality({k \in DOMAIN submitted : p \in submitted[k]}) = 1

\* the futures that exist are those of the batch submitted last
FuturesOfLastBatch ==
    (op = "batched" /\ submitted # <<>>) =>
        DOMAIN fut = submitted[Len(submitted)]

\* every call of the batch submitted last has returned or raised
LastBatchFinished ==
    \A p \in DOMAIN fut : fut[p] \in {"ok", "failed"}

\* C20: process_multiple_documents_batched cuts the input list into
\* consecutive batches of batch_size documents, the last one possibly
\* shorter; when it returns, every input document was submitted in exactly
\* one batch; and a batch is submitted only when every call of the batch
\* before it has returned or raised
C20_BatchesInOrder ==
    /\ [](op = "batched" =>
            /\ SubmittedInBlocks
            /\ FuturesOfLastBatch
            /\ (pc = "done" => EachSubmittedOnce))
    /\ [][(op = "batched" /\ submitted' # submitted) =>
            /\ LastBatchFinished
            /\ Len(submitted') = Len(submitted) + 1]_vars

\* three documents in batches of two: a full batch, then a shorter one, and
\* a call of the first batch raised
C20_Witness ==
    /\ op = "batched" /\ pc = "done"
    /\ Len(file_paths) = 3 /\ batch_size = 2
    /\ submitted = <<{1, 2}, {3}>>
    /\ 1 \in fails

\* the documents whose process_document call is executing
InFlight == {p \in 1..Len(file_paths) : p \in DOMAIN fut /\ fut[p] = "running"}

\* C21: at every moment of a batched run at most max_workers documents, and
\* at most as many as the current batch holds, are being processed
C21_BoundedConcurrency ==
    op = "batched" =>
        /\ Cardinality(InFlight) <= max_workers
        /\ Cardinality(InFlight) <= batch_size
        /\ submitted # <<>> => InFlight \subseteq submitted[Len(submitted)]
        /\ submitted = <<>> => InFlight = {}

\* a batch of two with one worker: one call executes and the other waits
C21_Witness ==
    /\ op = "batched" /\ pc = "collect"
    /\ max_workers = 1 /\ batch_size = 2
    /\ Cardinality(InFlight) = 1
    /\ \E p \in DOMAIN fut : fut[p] = "queued"

\* a call of a batch of several documents has raised
SiblingFailed ==
    /\ op = "batched" /\ pc = "collect"
    /\ \E q \in DOMAIN fut : fut[q] = "failed"
    /\ Cardinality(DOMAIN fut) > 1

\* the call of p ended and its future was consumed: the result of a call that
\* returned was appended, that of a call that raised was not
CollectedAt(p) ==
    /\ p \in collected
    /\ fut[p] \in {"ok", "failed"}
    /\ (p \notin fails) = (\E i \in DOMAIN processed_pos : processed_pos[i] = p)

\* the with block of the batch submitted last has ended
BatchOver == op = "batched" /\ pc \in {"next", "done"} /\ submitted # <<>>

\* C22: in the concurrent mode, once a call of a batch has raised, the batch
\* still comes to its end, whatever the order of completions, and at the end
\* of a batch every document of it, whether its call was queued, executing
\* or over when the sibling raised, has been processed and its future
\* consumed; no future is ever cancelled
C22_SiblingsNotCancelled ==
    /\ [](op = "batched" =>
            /\ \A p \in DOMAIN fut : fut[p] \in {"queued", "running", "ok", "failed"}
            /\ collected \subseteq DOMAIN fut
            /\ BatchOver => \A p \in submitted[Len(submitted)] : CollectedAt(p))
    /\ (SiblingFailed ~> BatchOver)

\* one worker and a batch of two: the first call raised while the second was
\* still queued, and the result of the second was appended afterwards
C22_Witness ==
    /\ op = "batched" /\ pc = "collect"
    /\ max_workers = 1 /\ DOMAIN fut = {1, 2}
    /\ fut[1] = "failed" /\ 1 \in collected
    /\ 2 \in collected /\ processed_pos = <<2>>

\* the batch of a position of the input list, counted from 0
BatchOf(p) == (p - 1) \div batch_size

\* every document was appended after the documents of the earlier batches
AppendedBatchByBatch ==
    \A i, j \in DOMAIN processed_pos :
        i < j => BatchOf(processed_pos[i]) <= BatchOf(processed_pos[j])

\* the place of a position of the current batch in the order of ending
EndedAt(p) == CHOOSE i \in DOMAIN completed : completed[i] = p

\* the documents of the current batch were appended in the order in which
\* their calls ended
InOrderOfEnding ==
    \A i, j \in DOMAIN processed_pos :
        (/\ i < j
         /\ pc = "collect"
         /\ BatchOf(processed_pos[i]) = Len(submitted) - 1
         /\ BatchOf(processed_pos[j]) = Len(submitted) - 1) =>
            EndedAt(processed_pos[i]) < EndedAt(processed_pos[j])

\* a document's records are appended when its future is consumed, after its
\* call returned; the records of one document stay together and in their
\* own order, and the records of a batch come before those of the next
AppendedAsYielded ==
    /\ all_raw_records = ResultsOf(processed_pos, "raw_records")
    /\ all_filtered_records = ResultsOf(processed_pos, "filtered_records")
    /\ processed_files = [i \in DOMAIN processed_pos |->
                              Basename(file_paths[processed_pos[i]])]
    /\ \A i \in DOMAIN processed_pos :
          /\ processed_pos[i] \in submitted[BatchOf(processed_pos[i]) + 1]
          /\ BatchOf(processed_pos[i]) = Len(submitted) - 1 =>
                fut[processed_pos[i]] = "ok"
          /\ (pc = "collect" /\ BatchOf(processed_pos[i]) = Len(submitted) - 1) =>
                \E k \in DOMAIN completed : completed[k] = processed_pos[i]
    /\ AppendedBatchByBatch

\* C23 as stated: in the concurrent mode the records of a batch are appended
\* in the order in which the documents' calls ended, the records of one
\* document stay together and in their own order, and the records of a batch
\* come before those of the next batch
C23_CompletionOrder ==
    op = "batched" => (AppendedAsYielded /\ InOrderOfEnding)

\* C23, amended: in the concurrent mode a document's records are appended
\* when as_completed yields its future, which is after its call returned but
\* not always in the order of ending; the records of one document stay
\* together and in their own order, and the records of a batch come before
\* those of the next batch
C23_YieldOrder ==
    op = "batched" => AppendedAsYielded

\* the first of two batches is consumed: the call of the first document, with
\* two raw records, ended before that of the second, and the second document
\* was appended first
C23_Witness ==
    /\ op = "batched" /\ pc = "collect"
    /\ Len(file_paths) = 3 /\ batch_size = 2
    /\ completed = <<1, 2>> /\ processed_pos = <<2, 1>>
    /\ Len(Processed[file_paths[1]].raw_records) = 2
    /\ Len(Processed[file_paths[2]].raw_records) = 1
    /\ Len(all_raw_records) = 3

\* what the run accumulates
Aggregates == <<all_raw_records, all_filtered_records, processed_files, saved>>

\* the calling thread consumes the future of p, whose call returned, and
\* appends the result of that call, deduplicated by the call itself
AppendsResultOf(p) ==
    /\ p \in DOMAIN fut /\ p \notin collected /\ fut[p] = "ok"
    /\ collected' = collected \cup {p}
    /\ processed_files' = Append(processed_files, Basename(file_paths[p]))
    /\ all_raw_records' =
           all_raw_records \o Processed[file_paths[p]].raw_records
    /\ all_filtered_records' =
           all_filtered_records \o Processed[file_paths[p]].filtered_records

\* C24: during a batched run a step of a worker thread leaves the aggregate
\* lists and the per-file output alone; they change only in a step of the
\* calling thread, which appends the whole result of one document at a time,
\* each result deduplicated within its own call, so that no update is lost
C24_SequentialWrites ==
    /\ [](op = "batched" =>
            /\ Len(processed_files) = Len(processed_pos)
            /\ pc = "done" => Len(ret.processed_files) = Cardinality(Succeeded))
    /\ [][op = "batched" =>
            /\ fut' # fut => Aggregates' = Aggregates
            /\ Aggregates' # Aggregates =>
                  /\ fut' = fut
                  /\ \E p \in 1..Len(file_paths) : AppendsResultOf(p)]_vars

\* two workers: the calling thread appended the result of the second document
\* while the call of the first, which has a repeated mobile, still executes
C24_Witness ==
    /\ op = "batched" /\ pc = "collect"
    /\ max_workers = 2 /\ DOMAIN fut = {1, 2}
    /\ fut[1] = "running" /\ fut[2] = "ok" /\ collected = {2}
    /\ file_paths[1] = P_a
    /\ Len(all_filtered_records) = 1
    /\ processed_files = <<Basename(file_paths[2])>>

\* the rows of the per-file output of the document at position p, a missing
\* file holding no rows
OutputRows(p) ==
    IF Basename(file_paths[p]) \in DOMAIN saved
    THEN saved[Basename(file_paths[p])].rows
    ELSE <<>>

\* C25: with save_per_file and an output folder, the batched orchestrator
\* writes a document's validated records when its result is collected, so
\* that from then on, and at the end of the run, the per-file output of every
\* collected document holds exactly the filtered records of that document
C25_PerDocumentOutput ==
    (op = "batched" /\ save_per_file) =>
        \A i \in DOMAIN processed_pos :
            OutputRows(processed_pos[i]) =
                CsvTable(Processed[file_paths[processed_pos[i]]].filtered_records).rows

-----------------------------------------------------------------------------
(* Further properties of _clean_and_validate (SpecValidate) *)

\* C26: a call of _clean_and_validate leaves every raw record it was given
\* with the fields and values it had, and each record of its output is built
\* by the call, with the eight fields of a CleanRecord, whatever fields the
\* raw record had
C26_RawRecordsUntouched ==
    /\ [](op = "validate" /\ pc = "done" =>
            \A k \in DOMAIN result :
                /\ DOMAIN result[k] = {"first_name", "last_name", "mobile",
                                       "address", "email", "dateofbirth",
                                       "landline", "lastseen"}
                /\ \E i \in DOMAIN records :
                      /\ DOMAIN records[i] \subseteq DOMAIN result[k]
                      /\ result[k].mobile = MobileDigits(records[i]))
    /\ [][op = "validate" => records' = records]_vars

\* an accepted raw record whose cleaned form differs from it: the mobile was
\* written with spaces and the address had the postcode in front
C26_Witness ==
    /\ op = "validate" /\ pc = "done"
    /\ Len(records) = 2 /\ Len(result) = 1
    /\ Get(records[1], "mobile") = M_A_spaced
    /\ Get(records[1], "address") = A_front
    /\ result[1].mobile # M_A_spaced
    /\ result[1].address # A_front
    /\ result[1] # records[1]

-----------------------------------------------------------------------------
(* Further properties of _fix_address_ordering (SpecAddress) *)

\* how often the word t stands at the places idx of the words w
Occurrences(w, idx, t) == Cardinality({k \in idx : w[k] = t})

\* the words out are the words in with the state in[i] and the postcode in[j]
\* taken out, in any order, then the state in upper case, then the postcode
MovedToEnd(in, out, i, j) ==
    LET n == Len(out)
    IN  /\ n = Len(in) /\ i # j
        /\ IsState(in[i]) /\ IsPostcode(in[j])
        /\ out[n - 1] = UpperStr(in[i]) /\ out[n] = in[j]
        /\ \A k \in 1..(n - 2) :
              Occurrences(out, 1..(n - 2), out[k]) =
                  Occurrences(in, (1..n) \ {i, j}, out[k])

\* C27: _fix_address_ordering only moves words: the words of its result are
\* those of the flattened address, either all as they were or with one whole
\* word of 2 or 3 letters, in upper case, and one whole word of exactly 4
\* digits taken as STATE and POSTCODE and put at the end; no word is cut
C27_OnlyMovesTokens ==
    (op = "fix_address" /\ pc = "called") =>
        LET in  == FlatWords
            out == Split(value)
        IN  \/ out = in
            \/ \E i, j \in DOMAIN in : MovedToEnd(in, out, i, j)

-----------------------------------------------------------------------------
(* detect_duplicates after _clean_and_validate (SpecDuplicates) *)

\* two raw records that pass every test and give the same mobile
SameMobileTwice ==
    << Raw(S_Jane, S_Smith, M_A, A_plain),
       [first_name |-> S_Bob, last_name |-> <<>>, mobile |-> M_A_spaced,
        address |-> A_front, email |-> E_mail, dateofbirth |-> D_dob,
        landline |-> L_land, lastseen |-> D_bad] >>

\* C28: detect_duplicates applied to what a single call of
\* _clean_and_validate returned reports nothing; where it reports a duplicate,
\* the list holds two records of one mobile, which no single call returns
C28_NoDuplicatesAfterValidate ==
    Detected =>
        /\ arg \in ValidatedLists => result = <<>>
        /\ result # <<>> =>
              /\ \E i, j \in 1..Len(arg) :
                    i # j /\ Get(arg[i], "mobile") = Get(arg[j], "mobile")
              /\ arg \notin ValidatedLists

\* the raw list had the same mobile twice, written in two ways: the call kept
\* the first record, and nothing is reported
C28_Witness ==
    /\ Detected
    /\ arg = CleanAndValidate(SameMobileTwice)
    /\ Len(CleanRecords(SameMobileTwice)) = 2
    /\ Len(arg) = 1
    /\ result = <<>>

-----------------------------------------------------------------------------
(* Termination of the batched orchestrator (SpecBatchFair) *)

\* a step in which a worker thread begins the call of p
CallBegins(p) ==
    /\ p \in DOMAIN fut' /\ fut'[p] = "running"
    /\ ~(p \in DOMAIN fut /\ fut[p] = "running")

\* C29: for every list of documents, batch_size >= 1 and max_workers >= 1,
\* process_multiple_documents_batched returns when every process_document
\* call returns or raises; process_document is called once for every
\* document: each is submitted in one batch, its call begins only from the
\* queue and is over when the batch ends; in the returned result total_raw
\* and total_filtered are the lengths of raw_records and filtered_records and
\* processed_files has one entry for each document whose call did not raise
C29_TerminatesOncePerDocument ==
    /\ [](op = "batched" /\ pc = "done" =>
            /\ batch_size >= 1 /\ max_workers >= 1
            /\ EachSubmittedOnce
            /\ ret.total_raw = Len(ret.raw_records)
            /\ ret.total_filtered = Len(ret.filtered_records)
            /\ Len(ret.processed_files) = Cardinality(Succeeded)
            /\ \A p \in Succeeded :
                  Cardinality({i \in DOMAIN processed_pos : processed_pos[i] = p}) = 1
            /\ \A i \in DOMAIN processed_pos : processed_pos[i] \in Succeeded)
    /\ [][op = "batched" =>
            \A p \in 1..Len(file_paths) :
                /\ CallBegins(p) => (p \in DOMAIN fut /\ fut[p] = "queued")
                /\ (p \in DOMAIN fut /\ fut[p] \in {"ok", "failed"}) =>
                      (p \in DOMAIN fut' => fut'[p] = fut[p])]_vars
    /\ (op = "batched" ~> (op = "batched" /\ pc = "done"))

\* three documents in two batches with two workers, the call of the second
\* raised: two files are returned, the first with its two raw records
C29_Witness ==
    /\ op = "batched" /\ pc = "done"
    /\ Len(file_paths) = 3 /\ batch_size = 2 /\ max_workers = 2
    /\ fails = {2}
    /\ file_paths[1] = P_a
    /\ Len(ret.processed_files) = 2
    /\ ret.total_raw >= 2 /\ ret.total_raw = Len(ret.raw_records)

-----------------------------------------------------------------------------
(* The two orchestrators compared (SpecBatch) *)

\* the positions of S in increasing order
RECURSIVE Ascending(_)
Ascending(S) ==
    IF S = {} THEN <<>>
    ELSE LET k == CHOOSE x \in S : \A y \in S : x <= y
         IN  <<k>> \o Ascending(S \ {k})

\* what a run returns that appends the documents that do not raise in the
\* order of the input list
InInputOrder ==
    BatchResult(ResultsOf(Ascending(Succeeded), "raw_records"),
                ResultsOf(Ascending(Succeeded), "filtered_records"),
                [k \in 1..Cardinality(Succeeded) |->
                    Basename(file_paths[Ascending(Succeeded)[k]])])

\* the sequences a and b hold the same elements, each as often
SameElements(a, b) ==
    /\ Len(a) = Len(b)
    /\ \A i \in DOMAIN a :
          Cardinality({k \in DOMAIN a : a[k] = a[i]}) =
              Cardinality({k \in DOMAIN b : b[k] = a[i]})

\* the returned lists hold what the sequential orchestrator returns for the
\* same list and the same failing calls, in some order
SameAsSequential ==
    /\ Returned
    /\ op = "seq" => ret = InInputOrder
    /\ SameElements(ret.raw_records, InInputOrder.raw_records)
    /\ SameElements(ret.filtered_records, InInputOrder.filtered_records)
    /\ SameElements(ret.processed_files, InInputOrder.processed_files)
    /\ ret.total_raw = InInputOrder.total_raw
    /\ ret.total_filtered = InInputOrder.total_filtered

\* C30 as stated: for the same list and the same failing calls the batched
\* orchestrator returns, under every interleaving, the elements the
\* sequential orchestrator returns, and with max_workers = 1 it returns them
\* in the same order
C30_SameOrderWithOneWorker ==
    Returned =>
        /\ SameAsSequential
        /\ (op = "batched" /\ max_workers = 1) => ret = InInputOrder

\* C30, amended: for the same list and the same failing calls the batched
\* orchestrator returns, under every interleaving, the elements the
\* sequential orchestrator returns; it returns them in the same order when
\* the futures of every batch were consumed in the order of the list, as
\* they are with batch_size = 1; one worker does not fix that order
C30_SameElements ==
    Returned =>
        /\ SameAsSequential
        /\ (op = "batched" /\ batch_size = 1) => ret = InInputOrder
        /\ (op = "batched" /\ processed_pos = Ascending(Succeeded)) =>
              ret = InInputOrder

\* one worker and batches of two: both calls of the first batch were over
\* when the second future was yielded first, and the returned files are those
\* of the sequential run in another order
C30_Witness ==
    /\ op = "batched" /\ pc = "done"
    /\ max_workers = 1 /\ batch_size = 2 /\ fails = {}
    /\ processed_pos = <<2, 1, 3>>
    /\ ret.processed_files # InInputOrder.processed_files
    /\ SameElements(ret.processed_files, InInputOrder.processed_files)
    /\ ret.raw_records # InInputOrder.raw_records

=============================================================================
